---------------------------- MODULE Spec2Model ----------------------------
(***************************************************************************)
(* A model of cfs/timely.py: calendars, time vectors, dates, durations and *)
(* periods.  Time vectors are 6-tuples <<year, cycle, day, hour, minute,   *)
(* second>>; a collection of time vectors (the M x 6 masked array of a     *)
(* MultiDate) is a sequence of such tuples.  Only integer time vectors are *)
(* modelled: every float the code computes from them is a whole number.    *)
(***************************************************************************)
EXTENDS Integers, Sequences, FiniteSets, TLC

VARIABLES
    calres,     \* the last calendar query and its answer
    heap,       \* data buffers of the masked arrays: buffer id -> M x 6 values
    self,       \* the left operand of the arithmetic: [buf, calendars]
    orig,       \* the operand's time vectors when it was constructed
    deltat,     \* the DeltaT last added to / subtracted from the operand
    new_mdate,  \* the object the last __add__/__sub__ worked on, and how it ended
    pc,         \* position in the arithmetic session
    cmp,        \* the last comparison of two Dates and its outcome
    period,     \* the Period being sampled
    sample,     \* the state of Period.regular_sample
    duration,   \* the duration being normalised and what was applied to it
    query       \* the last query of durations, dates or periods, and its answer

vars ==
    <<calres, heap, self, orig, deltat, new_mdate, pc, cmp, period, sample,
      duration, query>>

-----------------------------------------------------------------------------
(* Bounds of the model.                                                    *)

\* calendar queries are made for the years YearLo .. YearHi
YearLo == 1499
YearHi == 2101

-----------------------------------------------------------------------------
(* Built-in functions for calendar definition.                             *)

\* an array held as the sequence of its elements
Array(f) == f \o <<>>

\* the numbers 1, 2, ..., 365
OneTo365 == Array([i \in 1..365 |-> i])

\* python's range(1, b) as a sequence, for b up to 366
Range1(b) == SubSeq(OneTo365, 1, b - 1)

months_of_gregorian_calendar ==
    <<"January", "February", "March", "April", "May", "June", "July",
      "August", "September", "October", "November", "December">>

temperate_seasons == <<"Spring", "Summer", "Autumn", "Winter">>

year_cycle == <<"Year">>

days_in_month_360(month, year) == Range1(31)

\* a month the month tables reject with TimelyError
month_raises(month) == (month < 1) \/ (month > 12)

days_in_month_365(month, year) ==
    LET days_in_months == <<31, 28, 31, 30, 31, 30, 31, 31, 30, 31, 30, 31>>
    IN  IF month_raises(month) THEN <<>>
        ELSE Range1(days_in_months[month] + 1)

days_in_month_366(month, year) ==
    LET days_in_months == <<31, 29, 31, 30, 31, 30, 31, 31, 30, 31, 30, 31>>
    IN  IF month_raises(month) THEN <<>>
        ELSE Range1(days_in_months[month] + 1)

days_in_month_julian(month, year) ==
    IF (year % 4) = 0 THEN days_in_month_366(month, year)
    ELSE days_in_month_365(month, year)

\* the proleptic table without the exception for the years divisible by 400
days_in_month_proleptic_no_400(month, year) ==
    IF (year % 100) = 0
    THEN days_in_month_365(month, year)
    ELSE days_in_month_julian(month, year)

days_in_month_proleptic_gregorian(month, year) ==
    IF ((year % 100) = 0) /\ ((year % 400) # 0)
    THEN days_in_month_365(month, year)
    ELSE days_in_month_julian(month, year)

\* the Gregorian table without the ten days dropped in October 1582
days_in_month_gregorian_no_gap(month, year) ==
    IF (year > 1582) \/ ((year = 1582) /\ (month > 10))
    THEN days_in_month_proleptic_gregorian(month, year)
    ELSE days_in_month_julian(month, year)

days_in_month_gregorian(month, year) ==
    IF (year > 1582) \/ ((year = 1582) /\ (month > 10))
    THEN days_in_month_proleptic_gregorian(month, year)
    ELSE IF (year = 1582) /\ (month = 10)
    THEN <<1, 2, 3, 4, 15, 16, 17, 18, 19, 20, 21, 22, 23, 24, 25, 26, 27,
           28, 29, 30, 31>>
    ELSE days_in_month_julian(month, year)

days_in_year_365(cycle, year) == Range1(366)

day_in_year(cycle, year) == <<1>>

-----------------------------------------------------------------------------
(* The built-in calendars, named by their alias.                           *)

Calendars ==
    {"360_day", "noleap", "all_leap", "julian", "proleptic_gregorian",
     "gregorian", "years_only", "months_only", "seasons",
     "365_days_no_months"}

\* Calendar.year_cycles of each built-in calendar
year_cycles(cal, year) ==
    CASE cal \in {"years_only", "365_days_no_months"} -> year_cycle
      [] cal = "seasons" -> temperate_seasons
      [] OTHER -> months_of_gregorian_calendar

\* Calendar.days_in_cycle of each built-in calendar
days_in_cycle(cal, cycle, year) ==
    CASE cal = "360_day" -> days_in_month_360(cycle, year)
      [] cal = "noleap" -> days_in_month_365(cycle, year)
      [] cal = "all_leap" -> days_in_month_366(cycle, year)
      [] cal = "julian" -> days_in_month_julian(cycle, year)
      [] cal = "proleptic_gregorian" ->
             days_in_month_proleptic_gregorian(cycle, year)
      [] cal = "gregorian" -> days_in_month_gregorian(cycle, year)
      [] cal = "365_days_no_months" -> days_in_year_365(cycle, year)
      [] OTHER -> day_in_year(cycle, year)

\* the calendars whose days_in_cycle is a month table
month_calendars ==
    {"noleap", "all_leap", "julian", "proleptic_gregorian", "gregorian"}

\* days_in_cycle(cycle, year) raises TimelyError
days_in_cycle_raises(cal, cycle, year) ==
    (cal \in month_calendars) /\ month_raises(cycle)

\* Calendar.fn_is_leap is None
fn_is_leap_is_None(cal) == cal = "months_only"

is_leap_feb29(cal, year) ==
    LET dic == days_in_cycle(cal, 2, year)
    IN  dic[Len(dic)] = 29

\* Calendar.is_leap; it raises TimelyError where fn_is_leap is None
is_leap(cal, year) ==
    IF is_leap_feb29(cal, year) THEN TRUE ELSE FALSE

count_cycles_in_year(cal, year) == Len(year_cycles(cal, year))

count_days_in_cycle(cal, cycle, year) == Len(days_in_cycle(cal, cycle, year))

RECURSIVE SumDaysOfCycles(_, _, _)
SumDaysOfCycles(cal, year, cycle) ==
    IF cycle = 0 THEN 0
    ELSE SumDaysOfCycles(cal, year, cycle - 1)
         + Len(days_in_cycle(cal, cycle, year))

count_days_in_year(cal, year) ==
    SumDaysOfCycles(cal, year, Len(year_cycles(cal, year)))

\* Calendar._ith_day_in_cycle: the list index i - 1, which python takes from
\* the end of the list when it is negative; IndexError outside the list
ith_day_index(cal, cycle, year, i) ==
    LET n == Len(days_in_cycle(cal, cycle, year))
    IN  IF i >= 1 THEN i ELSE n + i

ith_day_raises(cal, cycle, year, i) ==
    LET n == Len(days_in_cycle(cal, cycle, year))
    IN  days_in_cycle_raises(cal, cycle, year) \/ (i > n) \/ (i < 1 - n)

\* the position in the list taken for the day found there
ith_day_is_position(cal, cycle, year, i) == ith_day_index(cal, cycle, year, i)

_ith_day_in_cycle(cal, cycle, year, i) ==
    days_in_cycle(cal, cycle, year)[ith_day_index(cal, cycle, year, i)]

-----------------------------------------------------------------------------
(* MultiDate: an M x 6 array of time vectors T with one calendar per row.  *)
(* Every per-row calendar function is evaluated, as in the source, for all *)
(* rows under each calendar of the collection before the rows of that      *)
(* calendar are picked, so it raises when it raises for any row under any  *)
(* calendar of the collection.                                             *)

\* a boolean used as a number
B(b) == IF b THEN 1 ELSE 0

\* np.unique(self.calendars)
_unique_calendars(calendars) == {calendars[i] : i \in DOMAIN calendars}

\* list.index(value) + 1; list.index raises ValueError when value is absent
IndexOf(some_list, value) ==
    CHOOSE i \in DOMAIN some_list : some_list[i] = value

InList(some_list, value) == \E i \in DOMAIN some_list : some_list[i] = value

\* self.times[..., 1].max()
MaxCycle(T) == CHOOSE m \in {T[i][2] : i \in DOMAIN T} :
                   \A i \in DOMAIN T : T[i][2] <= m

MultiDate_count_cycles_in_year(T, calendars) ==
    Array([i \in DOMAIN T |-> count_cycles_in_year(calendars[i], T[i][1])])

MultiDate_count_days_in_year(T, calendars) ==
    Array([i \in DOMAIN T |-> count_days_in_year(calendars[i], T[i][1])])

\* MultiDate.days_in_cycle / count_days_in_cycle raise TimelyError
MultiDate_days_in_cycle_raises(T, calendars) ==
    \E cal \in _unique_calendars(calendars), i \in DOMAIN T :
        days_in_cycle_raises(cal, T[i][2], T[i][1])

MultiDate_count_days_in_cycle(T, calendars) ==
    Array([i \in DOMAIN T |-> count_days_in_cycle(calendars[i], T[i][2], T[i][1])])

\* MultiDate.ith_day_in_cycle(indices) raises (TimelyError or IndexError)
MultiDate_ith_day_in_cycle_raises(T, calendars, indices) ==
    \E cal \in _unique_calendars(calendars), i \in DOMAIN T :
        ith_day_raises(cal, T[i][2], T[i][1], indices[i])

MultiDate_ith_day_in_cycle(T, calendars, indices) ==
    Array([i \in DOMAIN T |->
        _ith_day_in_cycle(calendars[i], T[i][2], T[i][1], indices[i])])

\* MultiDate.day_number_in_cycle: "ok", or the exception it raises
day_number_in_cycle_status(T, calendars) ==
    IF MultiDate_days_in_cycle_raises(T, calendars) THEN "TimelyError"
    ELSE IF \E i \in DOMAIN T :
                ~InList(days_in_cycle(calendars[i], T[i][2], T[i][1]), T[i][3])
         THEN "ValueError"
         ELSE "ok"

day_number_in_cycle(T, calendars) ==
    Array([i \in DOMAIN T |->
        IndexOf(days_in_cycle(calendars[i], T[i][2], T[i][1]), T[i][3])])

\* the loop of MultiDate.day_number_in_year, for i in range(1, max cycle)
RECURSIVE day_number_in_year_loop(_, _, _)
day_number_in_year_loop(T, calendars, i) ==
    IF i < 1 THEN Array([j \in DOMAIN T |-> 0])
    ELSE LET before == day_number_in_year_loop(T, calendars, i - 1)
             cycles == MultiDate_count_cycles_in_year(T, calendars)
             this_cycle == Array([j \in DOMAIN T |->
                               i - (i - 1) * B(cycles[j] < i)])
             num_days == Array([j \in DOMAIN T |->
                 count_days_in_cycle(calendars[j], this_cycle[j], T[j][1])])
         IN  Array([j \in DOMAIN T |->
                 before[j] + num_days[j] * B(T[j][2] > i)])

day_number_in_year(T, calendars) ==
    LET months == day_number_in_year_loop(T, calendars, MaxCycle(T) - 1)
        days == day_number_in_cycle(T, calendars)
    IN  Array([j \in DOMAIN T |-> months[j] + days[j]])

\* the checks of MultiDate.__init__ on a collection without masked slots:
\* "ok", or the exception the constructor raises
MultiDate_init_status(T, calendars) ==
    IF \E i \in DOMAIN T, k \in 2..6 : T[i][k] < 0 THEN "TimelyError"
    ELSE IF MultiDate_days_in_cycle_raises(T, calendars) THEN "TimelyError"
    ELSE IF \E i \in DOMAIN T :
                \/ T[i][2] < 1
                \/ T[i][2] > count_cycles_in_year(calendars[i], T[i][1])
         THEN "TimelyError"
    ELSE IF \E i \in DOMAIN T :
                ~InList(days_in_cycle(calendars[i], T[i][2], T[i][1]), T[i][3])
         THEN "TimelyError"
    ELSE IF \E i \in DOMAIN T : T[i][4] >= 24 THEN "TimelyError"
    ELSE IF \E i \in DOMAIN T : T[i][5] >= 60 THEN "TimelyError"
    ELSE IF \E i \in DOMAIN T : T[i][6] >= 60 THEN "TimelyError"
    ELSE "ok"

\* an increment array broadcast against the rows: one value for all, or one
\* value per row
Bcast(increments, i) ==
    IF Len(increments) = 1 THEN increments[1] ELSE increments[i]

-----------------------------------------------------------------------------
(* MultiDate arithmetic.  Each add_* method works in place on the time     *)
(* vectors T; it is modelled by an operator from T to [T, st], st being    *)
(* "ok" or the way the method failed to return: the name of the exception  *)
(* it raised, or "hang" when one of its while loops is still running after *)
(* MaxCarry passes.                                                        *)

\* the passes of a while loop of add_cycles / add_days that are followed
MaxCarry == 14

add_years(T, increments) ==
    [T |-> Array([i \in DOMAIN T |->
               [T[i] EXCEPT ![1] = @ + Bcast(increments, i)]]),
     st |-> "ok"]

\* add_cycles up to its while loop
add_cycles_entry(T, calendars, increments) ==
    LET integral == Array([i \in DOMAIN T |-> Bcast(increments, i)])
        cycles_in_year == MultiDate_count_cycles_in_year(T, calendars)
        max_add == Array([i \in DOMAIN T |-> cycles_in_year[i] - T[i][2]])
        max_sub == Array([i \in DOMAIN T |-> 1 - T[i][2]])
        flag_over == Array([i \in DOMAIN T |-> integral[i] > max_add[i]])
        flag_under == Array([i \in DOMAIN T |-> integral[i] < max_sub[i]])
        flag_either == Array([i \in DOMAIN T |-> flag_over[i] \/ flag_under[i]])
        flag_neg == Array([i \in DOMAIN T |-> integral[i] < 0])
        warp1 == Array([i \in DOMAIN T |-> (T[i][2] - 1) * B(flag_either[i])])
        warp2 == Array([i \in DOMAIN T |->
                     B(flag_neg[i]) * (1 - B(flag_under[i])) * integral[i]])
        warp3 == Array([i \in DOMAIN T |-> B(flag_over[i]) * (max_add[i] + 1)])
    IN  [T |-> Array([i \in DOMAIN T |->
                   [T[i] EXCEPT ![1] = @ + B(flag_over[i]),
                                ![2] = @ - warp1[i] + warp2[i]]]),
         integral |-> Array([i \in DOMAIN T |->
                          integral[i] - warp3[i]
                          - B(flag_under[i]) * max_sub[i] - warp2[i]]),
         flag_under |-> Array([i \in DOMAIN T |-> FALSE]),
         again |-> TRUE]

\* one pass of the while loop of add_cycles, cycles_in_year being the
\* count of the pass
add_cycles_carry(s, cycles_in_year) ==
    LET integral == Array([i \in DOMAIN s.T |->
                        s.integral[i] + cycles_in_year[i] * B(s.flag_under[i])])
        flag_over ==
            Array([i \in DOMAIN s.T |-> integral[i] >= cycles_in_year[i]])
        flag_under == Array([i \in DOMAIN s.T |-> integral[i] < 0])
    IN  [T |-> Array([i \in DOMAIN s.T |->
                   [s.T[i] EXCEPT
                       ![1] = @ + B(flag_over[i]) - B(flag_under[i])]]),
         integral |-> Array([i \in DOMAIN s.T |->
                          integral[i] - cycles_in_year[i] * B(flag_over[i])]),
         flag_under |-> flag_under,
         cycles_in_year |-> cycles_in_year,
         again |-> \E i \in DOMAIN s.T : flag_over[i] \/ flag_under[i]]

add_cycles_pass(s, calendars) ==
    add_cycles_carry(s, MultiDate_count_cycles_in_year(s.T, calendars))

RECURSIVE add_cycles_loop(_, _, _)
RECURSIVE add_cycles_next(_, _, _)
\* the while loop of add_cycles from the state s, followed for fuel passes
add_cycles_loop(s, calendars, fuel) ==
    add_cycles_next(add_cycles_pass(s, calendars), calendars, fuel)

\* the loop after a pass that ended in n: break, or pass again
add_cycles_next(n, calendars, fuel) ==
    IF (~n.again) \/ (fuel = 0) THEN n
    ELSE add_cycles_loop(n, calendars, fuel - 1)

\* add_cycles after its while loop, which ended in s
add_cycles_final(s) ==
    IF s.again THEN [T |-> s.T, st |-> "hang"]
    ELSE [T |-> Array([i \in DOMAIN s.T |->
                    [s.T[i] EXCEPT ![2] =
                        @ + s.integral[i]
                        + s.cycles_in_year[i] * B(s.flag_under[i])]]),
          st |-> "ok"]

add_cycles(T, calendars, increments) ==
    add_cycles_final(
        add_cycles_loop(add_cycles_entry(T, calendars, increments),
                        calendars, MaxCarry))

\* add_days, where it looks whether the increment leaves the current year
\* (and, in the same way, the current cycle): room is the number of days of
\* the year (cycle), days_numbers the day number in it
add_days_flags(T, integral, room, days_numbers) ==
    LET max_add == Array([i \in DOMAIN T |-> room[i] - days_numbers[i]])
        max_sub == Array([i \in DOMAIN T |-> 1 - days_numbers[i]])
        flag_over == Array([i \in DOMAIN T |-> integral[i] > max_add[i]])
        flag_under == Array([i \in DOMAIN T |-> integral[i] < max_sub[i]])
    IN  [T |-> T, integral |-> integral, room |-> room,
         max_add |-> max_add, max_sub |-> max_sub,
         flag_over |-> flag_over, flag_under |-> flag_under,
         flag_back |-> flag_under,
         flag_either |->
             Array([i \in DOMAIN T |-> flag_over[i] \/ flag_under[i]]),
         again |-> TRUE, st |-> "ok"]

\* move to another year where necessary, and there to cycle 1
add_days_year_move(m) ==
    [m EXCEPT !.T = Array([i \in DOMAIN m.T |->
        [m.T[i] EXCEPT ![1] = @ + B(m.flag_over[i]) - B(m.flag_under[i]),
                       ![2] = @ - (@ - 1) * B(m.flag_either[i])]])]

\* the day value of the first day of the first cycle of each row's year
first_day_in_first_cycle(T, calendars) ==
    Array([i \in DOMAIN T |-> _ith_day_in_cycle(calendars[i], 1, T[i][1], 1)])

\* where flag_either, set the day to the given first day
add_days_set_first(m, first) ==
    [m EXCEPT !.T = Array([i \in DOMAIN m.T |->
        [m.T[i] EXCEPT ![3] = @ - (@ - first[i]) * B(m.flag_either[i])]])]

add_days_year_first(m, calendars) ==
    add_days_set_first(m, first_day_in_first_cycle(m.T, calendars))

\* adjust the remaining integral part with the days of the year (cycle)
\* moved to, and go to the while loop
add_days_adjust(m, new_room) ==
    [m EXCEPT
        !.integral = Array([i \in DOMAIN m.T |->
            m.integral[i] - B(m.flag_over[i]) * (m.max_add[i] + 1)
            - B(m.flag_under[i]) * (m.max_sub[i] - new_room[i])]),
        !.room = new_room]

\* add_days up to its first while loop: move to the first day of a
\* neighbouring year where the increment leaves the current year
add_days_year_begin(T, calendars, integral) ==
    add_days_year_first(
        add_days_year_move(
            add_days_flags(T, integral,
                           MultiDate_count_days_in_year(T, calendars),
                           day_number_in_year(T, calendars))),
        calendars)

add_days_year_adjust(m, calendars) ==
    add_days_adjust(m, MultiDate_count_days_in_year(m.T, calendars))

add_days_year_entry(T, calendars, increments) ==
    add_days_year_adjust(
        add_days_year_begin(T, calendars,
            Array([i \in DOMAIN T |-> Bcast(increments, i)])),
        calendars)

\* a pass of a while loop of add_days, where it looks which rows move on:
\* those with a whole year (cycle) left to add, and those that were moved
\* back before the loop and are left with a negative integral part
add_days_pass_flags(s) ==
    LET flag_over == Array([i \in DOMAIN s.T |-> s.integral[i] >= s.room[i]])
        flag_back == Array([i \in DOMAIN s.T |->
                         s.flag_under[i] /\ (s.integral[i] < 0)])
    IN  [s EXCEPT !.flag_over = flag_over, !.flag_back = flag_back,
                  !.flag_either = Array([i \in DOMAIN s.T |->
                                      flag_over[i] \/ flag_back[i]]),
                  !.again = \E i \in DOMAIN s.T : flag_over[i] \/ flag_back[i]]

add_days_year_pass_move(m) ==
    [m EXCEPT !.T = Array([i \in DOMAIN m.T |->
        [m.T[i] EXCEPT ![1] = @ + B(m.flag_over[i]) - B(m.flag_back[i])]])]

\* the end of a pass of the first while loop: the integral part that is
\* left, with the days of the year moved to
add_days_year_pass_adjust(m, new_room) ==
    [m EXCEPT
        !.integral = Array([i \in DOMAIN m.T |->
            m.integral[i] - B(m.flag_over[i]) * m.room[i]
            - B(m.flag_back[i]) * new_room[i]]),
        !.room = new_room]

add_days_year_pass_count(m, calendars) ==
    add_days_year_pass_adjust(m, MultiDate_count_days_in_year(m.T, calendars))

\* one pass of the first while loop of add_days (whole years)
add_days_year_pass(s, calendars) ==
    add_days_year_pass_count(
        add_days_year_first(add_days_year_pass_move(add_days_pass_flags(s)),
                            calendars),
        calendars)

RECURSIVE add_days_year_loop(_, _, _)
RECURSIVE add_days_year_next(_, _, _)
\* the first while loop of add_days from the state s, followed for fuel
\* passes
add_days_year_loop(s, calendars, fuel) ==
    add_days_year_next(add_days_year_pass(s, calendars), calendars, fuel)

add_days_year_next(n, calendars, fuel) ==
    IF (~n.again) \/ (fuel = 0) THEN n
    ELSE add_days_year_loop(n, calendars, fuel - 1)

\* the first day of each row's cycle
first_day_in_cycle(T, calendars) ==
    Array([i \in DOMAIN T |-> _ith_day_in_cycle(calendars[i], T[i][2], T[i][1], 1)])

\* in the cycle moved to, set the day to the first day where flag_either;
\* the month tables raise TimelyError for a cycle that is no month
add_days_cycle_first(m, calendars) ==
    IF MultiDate_days_in_cycle_raises(m.T, calendars)
    THEN [m EXCEPT !.st = "TimelyError", !.again = FALSE]
    ELSE add_days_set_first(m, first_day_in_cycle(m.T, calendars))

add_days_cycle_move(m) ==
    [m EXCEPT !.T = Array([i \in DOMAIN m.T |->
        [m.T[i] EXCEPT ![2] = @ + B(m.flag_over[i]) - B(m.flag_under[i])]])]

add_days_cycle_adjust(m, calendars) ==
    IF m.st # "ok" THEN m
    ELSE add_days_adjust(m, MultiDate_count_days_in_cycle(m.T, calendars))

\* add_days between its two while loops: move to the first day of a
\* neighbouring cycle where the rest of the increment leaves the cycle
add_days_cycle_entry(T, calendars, integral) ==
    add_days_cycle_adjust(
        add_days_cycle_first(
            add_days_cycle_move(
                add_days_flags(T, integral,
                               MultiDate_count_days_in_cycle(T, calendars),
                               day_number_in_cycle(T, calendars))),
            calendars),
        calendars)

add_days_cycle_pass_move(m) ==
    [m EXCEPT !.T = Array([i \in DOMAIN m.T |->
        [m.T[i] EXCEPT ![2] = @ + B(m.flag_over[i]) - B(m.flag_back[i])]])]

\* the end of a pass of the second while loop: the integral part that is
\* left, with the days of the cycle moved to
add_days_cycle_pass_adjust(m, new_room) ==
    [m EXCEPT
        !.integral = Array([i \in DOMAIN m.T |->
            m.integral[i] - B(m.flag_over[i]) * m.room[i]
            + B(m.flag_back[i]) * new_room[i]]),
        !.room = new_room]

add_days_cycle_pass_count(m, calendars) ==
    IF m.st # "ok" THEN m
    ELSE add_days_cycle_pass_adjust(m,
             MultiDate_count_days_in_cycle(m.T, calendars))

\* one pass of the second while loop of add_days (whole cycles)
add_days_cycle_pass(s, calendars) ==
    add_days_cycle_pass_count(
        add_days_cycle_first(
            add_days_cycle_pass_move(add_days_pass_flags(s)), calendars),
        calendars)

RECURSIVE add_days_cycle_loop(_, _, _)
RECURSIVE add_days_cycle_next(_, _, _)
\* the second while loop of add_days from the state s, followed for fuel
\* passes
add_days_cycle_loop(s, calendars, fuel) ==
    add_days_cycle_next(add_days_cycle_pass(s, calendars), calendars, fuel)

add_days_cycle_next(n, calendars, fuel) ==
    IF (~n.again) \/ (fuel = 0) THEN n
    ELSE add_days_cycle_loop(n, calendars, fuel - 1)

\* where a method fails, what it had written to the times stays written
Failed(T, st) == [T |-> T, st |-> st]

\* the end of add_days: the day of each row, from its number in the cycle
add_days_final(c, calendars) ==
    LET days_numbers == day_number_in_cycle(c.T, calendars)
        new_day_numbers ==
            Array([i \in DOMAIN c.T |-> days_numbers[i] + c.integral[i]])
        new_day_values ==
            MultiDate_ith_day_in_cycle(c.T, calendars, new_day_numbers)
    IN  IF c.st # "ok" THEN Failed(c.T, c.st)
        ELSE IF c.again THEN Failed(c.T, "hang")
        ELSE IF MultiDate_ith_day_in_cycle_raises(c.T, calendars,
                                                  new_day_numbers)
        THEN Failed(c.T, "IndexError")
        ELSE [T |-> Array([i \in DOMAIN c.T |->
                        [c.T[i] EXCEPT ![3] = new_day_values[i]]]),
              st |-> "ok"]

\* add_days from its second stage on, c0 being the state at the second loop
add_days_cycles(c0, calendars) ==
    IF c0.st # "ok" THEN Failed(c0.T, c0.st)
    ELSE add_days_final(add_days_cycle_loop(c0, calendars, MaxCarry),
                        calendars)

\* add_days after its first loop, y being the state the loop ended in
add_days_after_years(y, calendars) ==
    IF y.again THEN Failed(y.T, "hang")
    ELSE add_days_cycles(add_days_cycle_entry(y.T, calendars, y.integral),
                         calendars)

add_days(T, calendars, increments) ==
    IF day_number_in_cycle_status(T, calendars) # "ok"
    THEN Failed(T, day_number_in_cycle_status(T, calendars))
    ELSE add_days_after_years(
             add_days_year_loop(
                 add_days_year_entry(T, calendars, increments),
                 calendars, MaxCarry),
             calendars)

\* the hour of each row once the days, if any, are carried (d)
add_hours_set(d, integral, overflow) ==
    IF d.st # "ok" THEN d
    ELSE [T |-> Array([i \in DOMAIN d.T |->
                    [d.T[i] EXCEPT ![4] =
                        @ + (1 - B(overflow[i])) * integral[i]
                        + B(overflow[i])
                          * (- @ + ((integral[i] + @) % 24))]]),
          st |-> "ok"]

add_hours(T, calendars, increments) ==
    LET integral == Array([i \in DOMAIN T |-> Bcast(increments, i)])
        flag_over == Array([i \in DOMAIN T |-> integral[i] >= 24 - T[i][4]])
        flag_under == Array([i \in DOMAIN T |-> integral[i] < - T[i][4]])
        overflow == Array([i \in DOMAIN T |-> flag_over[i] \/ flag_under[i]])
    IN  add_hours_set(
            IF \E i \in DOMAIN T : overflow[i]
            THEN add_days(T, calendars,
                     Array([i \in DOMAIN T |->
                               (integral[i] + T[i][4]) \div 24]))
            ELSE [T |-> T, st |-> "ok"],
            integral, overflow)

\* the minute of each row once the hours, if any, are carried (h)
add_minutes_set(h, integral, overflow) ==
    IF h.st # "ok" THEN h
    ELSE [T |-> Array([i \in DOMAIN h.T |->
                    [h.T[i] EXCEPT ![5] =
                        @ + (1 - B(overflow[i])) * integral[i]
                        + B(overflow[i])
                          * (- @ + ((integral[i] + @) % 60))]]),
          st |-> "ok"]

add_minutes(T, calendars, increments) ==
    LET integral == Array([i \in DOMAIN T |-> Bcast(increments, i)])
        flag_over == Array([i \in DOMAIN T |-> integral[i] >= 60 - T[i][5]])
        flag_under == Array([i \in DOMAIN T |-> integral[i] < - T[i][5]])
        overflow == Array([i \in DOMAIN T |-> flag_over[i] \/ flag_under[i]])
    IN  add_minutes_set(
            IF \E i \in DOMAIN T : overflow[i]
            THEN add_hours(T, calendars,
                     Array([i \in DOMAIN T |->
                               (integral[i] + T[i][5]) \div 60]))
            ELSE [T |-> T, st |-> "ok"],
            integral, overflow)

\* the second of each row once add_minutes(flag_threshold_over) is done (m2)
add_seconds_set(m2, new_seconds) ==
    IF m2.st # "ok" THEN m2
    ELSE [T |-> Array([i \in DOMAIN m2.T |->
                    [m2.T[i] EXCEPT ![6] = new_seconds[i]]]),
          st |-> "ok"]

\* add_seconds once the minutes, if any, are carried (m).  With whole
\* seconds the rounding threshold never applies: new_seconds is never
\* strictly between 0 and threshold or above 60 - threshold
add_seconds_round(m, calendars, new_seconds) ==
    IF m.st # "ok" THEN m
    ELSE add_seconds_set(
             add_minutes(m.T, calendars, Array([i \in DOMAIN m.T |-> 0])),
             new_seconds)

add_seconds(T, calendars, increments) ==
    LET new_seconds ==
            Array([i \in DOMAIN T |-> T[i][6] + Bcast(increments, i)])
        flag_over == Array([i \in DOMAIN T |-> new_seconds[i] >= 60])
        flag_under == Array([i \in DOMAIN T |-> new_seconds[i] < 0])
        overflow == Array([i \in DOMAIN T |-> flag_over[i] \/ flag_under[i]])
    IN  add_seconds_round(
            IF \E i \in DOMAIN T : overflow[i]
            THEN add_minutes(T, calendars,
                     Array([i \in DOMAIN T |-> new_seconds[i] \div 60]))
            ELSE [T |-> T, st |-> "ok"],
            calendars,
            Array([i \in DOMAIN T |->
                      IF overflow[i] THEN new_seconds[i] % 60
                      ELSE new_seconds[i]]))

\* multideltat.year(), .cycle(), ..., .second(): slot k of every row
Component(md, k) == Array([i \in DOMAIN md |-> md[i][k]])

\* the steps of MultiDate.__add__ after add_years, each run where the step
\* before it (which ended in r) returned
then_add_cycles(r, calendars, md) ==
    IF r.st = "ok" THEN add_cycles(r.T, calendars, Component(md, 2)) ELSE r

then_add_days(r, calendars, md) ==
    IF r.st = "ok" THEN add_days(r.T, calendars, Component(md, 3)) ELSE r

then_add_hours(r, calendars, md) ==
    IF r.st = "ok" THEN add_hours(r.T, calendars, Component(md, 4)) ELSE r

then_add_minutes(r, calendars, md) ==
    IF r.st = "ok" THEN add_minutes(r.T, calendars, Component(md, 5)) ELSE r

then_add_seconds(r, calendars, md) ==
    IF r.st = "ok" THEN add_seconds(r.T, calendars, Component(md, 6)) ELSE r

\* the six steps MultiDate.__add__ runs on new_mdate, in their order
MultiDate_add_steps(T, calendars, md) ==
    then_add_seconds(
        then_add_minutes(
            then_add_hours(
                then_add_days(
                    then_add_cycles(add_years(T, Component(md, 1)),
                                    calendars, md),
                    calendars, md),
                calendars, md),
            calendars, md),
        calendars, md)

\* MultiDate.__add__ after MultiDate(self.times, self.calendars), whose
\* checks ended in st0
MultiDate_add_from(T, calendars, md, st0) ==
    IF st0 = "ok" THEN MultiDate_add_steps(T, calendars, md)
    ELSE Failed(T, st0)

\* _CollectionTime.__mul__: every element times the multiplier
CollectionTime_mul(md, multiplier) ==
    Array([i \in DOMAIN md |-> Array([k \in 1..6 |-> md[i][k] * multiplier])])

\* MultiDate(times, calendars) on the times array of an existing MultiDate:
\* _conversion_to_ma returns a masked array untouched and
\* ma.array(times, dtype=myint) of an integer array makes no copy, so the
\* new object's times live in the buffer they were given in
MultiDate_init_buffer(h, buf) == buf

\* the heap and the object new_mdate when the steps of MultiDate.__add__
\* ended in r
MultiDate_added(h, buf, calendars, r) ==
    [heap |-> [h EXCEPT ![buf] = r.T],
     new_mdate |-> [buf |-> buf, calendars |-> calendars, st |-> r.st]]

\* MultiDate.__add__ on the object obj with the heap h: the heap and the
\* object new_mdate when the method returned, raised or hung
MultiDate___add__(h, obj, multideltat) ==
    MultiDate_added(h, MultiDate_init_buffer(h, obj.buf), obj.calendars,
        MultiDate_add_from(h[MultiDate_init_buffer(h, obj.buf)],
            obj.calendars, multideltat,
            MultiDate_init_status(h[MultiDate_init_buffer(h, obj.buf)],
                                  obj.calendars)))

MultiDate___sub__(h, obj, multideltat) ==
    MultiDate___add__(h, obj, CollectionTime_mul(multideltat, -1))

-----------------------------------------------------------------------------
(* The values the unused parts of the state hold in each specification.    *)

NoQuery == [fn |-> "none", cal |-> "none", year |-> 0, raised |-> FALSE,
            leap |-> FALSE, days |-> 0]

NoObject == [buf |-> 0, calendars |-> <<>>, st |-> "none"]

NoComparison == [op |-> "none", left |-> <<>>, right |-> <<>>,
                 lcal |-> "none", rcal |-> "none", ltimes |-> <<>>,
                 rtimes |-> <<>>, st |-> "none", warned |-> FALSE,
                 result |-> FALSE]

NoPeriod == [times |-> <<>>, calendar |-> "none", left_open |-> FALSE,
             right_open |-> FALSE]

NoSample == [pc |-> "none", deltat |-> <<>>, multidate_times |-> <<>>,
             next_date |-> <<>>]

NoDuration ==
    [times |-> <<>>, given |-> <<>>, previous |-> <<>>, applied |-> <<>>]

NoAnswer == [fn |-> "none"]

CalIdle == calres = NoQuery

ArithIdle ==
    /\ heap = <<>>
    /\ self = NoObject
    /\ orig = <<>>
    /\ deltat = <<>>
    /\ new_mdate = NoObject
    /\ pc = "none"

CmpIdle == cmp = NoComparison

PeriodIdle == period = NoPeriod /\ sample = NoSample

DurationIdle == duration = NoDuration

QueryIdle == query = NoAnswer

-----------------------------------------------------------------------------
(* Calendar queries: one query of one built-in calendar for one year.      *)

InitCal ==
    CalIdle /\ ArithIdle /\ CmpIdle /\ PeriodIdle /\ DurationIdle /\ QueryIdle

\* cal.is_leap(year)
IsLeap ==
    \E cal \in Calendars, year \in YearLo..YearHi :
        /\ calres = NoQuery
        /\ calres' = [fn |-> "is_leap", cal |-> cal, year |-> year,
                      raised |-> fn_is_leap_is_None(cal),
                      leap |-> IF fn_is_leap_is_None(cal) THEN FALSE
                               ELSE is_leap(cal, year),
                      days |-> 0]
        /\ UNCHANGED <<heap, self, orig, deltat, new_mdate, pc, cmp, period,
                       sample, duration, query>>

\* cal.count_days_in_year(year)
CountDaysInYear ==
    \E cal \in Calendars, year \in YearLo..YearHi :
        /\ calres = NoQuery
        /\ calres' = [fn |-> "count_days_in_year", cal |-> cal,
                      year |-> year, raised |-> FALSE, leap |-> FALSE,
                      days |-> count_days_in_year(cal, year)]
        /\ UNCHANGED <<heap, self, orig, deltat, new_mdate, pc, cmp, period,
                       sample, duration, query>>

NextCal == IsLeap \/ CountDaysInYear

SpecCal == InitCal /\ [][NextCal]_vars

\* C6 as the specification words it: for every integer year, CalGregorian's
\* is_leap is true exactly when the year is divisible by 4 and not by 100,
\* or divisible by 400.
C6_LeapRuleEveryYear ==
    (calres.fn = "is_leap" /\ calres.cal = "gregorian")
        => /\ ~calres.raised
           /\ calres.leap <=> \/ (calres.year % 4 = 0) /\ (calres.year % 100 # 0)
                              \/ calres.year % 400 = 0

\* C6 amended: CalGregorian's is_leap follows the 4/100/400 rule for the
\* years after 1582 and the Julian rule (divisible by 4) for 1582 and before.
C6_LeapRuleWithTransition ==
    (calres.fn = "is_leap" /\ calres.cal = "gregorian")
        => /\ ~calres.raised
           /\ calres.leap <=>
                IF calres.year > 1582
                THEN \/ (calres.year % 4 = 0) /\ (calres.year % 100 # 0)
                     \/ calres.year % 400 = 0
                ELSE calres.year % 4 = 0

C6_Witness ==
    /\ calres.fn = "is_leap"
    /\ calres.cal = "gregorian"
    /\ calres.year = 1500
    /\ calres.leap

\* C7 as the specification words it: CalGregorian's count_days_in_year is
\* 365 or 366 for every year.
C7_DaysInYearEveryYear ==
    (calres.fn = "count_days_in_year" /\ calres.cal = "gregorian")
        => calres.days \in {365, 366}

\* C7 amended: CalGregorian's count_days_in_year is 355 for 1582, the year
\* of the transition, and 365 or 366 for every other year.
C7_DaysInYearWithTransition ==
    (calres.fn = "count_days_in_year" /\ calres.cal = "gregorian")
        => IF calres.year = 1582 THEN calres.days = 355
           ELSE calres.days \in {365, 366}

C7_Witness ==
    /\ calres.fn = "count_days_in_year"
    /\ calres.cal = "gregorian"
    /\ calres.year = 1582
    /\ calres.days = 355

-----------------------------------------------------------------------------
(* Date arithmetic: a Date or MultiDate is constructed, a DeltaT or        *)
(* MultiDeltaT is added to it or subtracted from it, and the DeltaT is     *)
(* then taken back from the sum.                                           *)

one_second == <<0, 0, 0, 0, 0, 1>>
one_minute == <<0, 0, 0, 0, 1, 0>>
one_hour == <<0, 0, 0, 1, 0, 0>>
one_day == <<0, 0, 1, 0, 0, 0>>
one_cycle == <<0, 1, 0, 0, 0, 0>>
one_year == <<1, 0, 0, 0, 0, 0>>

\* the time vectors of the dates that are constructed
DateYears == {1582, 2000, 2001}
DateCycles == {1, 2, 10, 12}
DateDays == {1, 4, 15, 29, 31}
DateClocks == {<<0, 0, 0>>, <<23, 59, 59>>}

DateVectors ==
    {<<y, c, d, t[1], t[2], t[3]>> :
        y \in DateYears, c \in DateCycles, d \in DateDays, t \in DateClocks}

\* the collections of two dates that are constructed
MultiDateVectors ==
    {<<<<2001, 1, 15, 0, 0, 0>>, <<2000, 2, 29, 23, 59, 59>>>>,
     <<<<1582, 10, 4, 0, 0, 0>>, <<2001, 12, 31, 23, 59, 59>>>>}

\* a duration with the amount n in slot k alone
Single(k, n) == Array([j \in 1..6 |-> IF j = k THEN n ELSE 0])

\* the durations used, each with its opposite
DeltaVectors ==
    LET positive ==
            {Single(1, 1), Single(2, 1), Single(2, 13), Single(3, 1),
             Single(3, 30), Single(3, 400), Single(3, 800), Single(4, 1),
             Single(4, 25), Single(5, 1), Single(5, 61), Single(6, 1),
             Single(6, 61), <<0, 1, 1, 0, 0, 0>>, <<1, 0, 0, 0, 0, 1>>}
    IN  positive \cup {Array([j \in 1..6 |-> - v[j]]) : v \in positive}

\* the DeltaT (one row) and MultiDeltaT (two rows) that are added
DeltaTs == {<<v>> : v \in DeltaVectors}

MultiDeltaTs ==
    {<<one_day, one_cycle>>, <<Single(4, -25), Single(6, 61)>>,
     <<one_year, Single(3, -1)>>}

InitArith ==
    /\ CalIdle /\ CmpIdle /\ PeriodIdle /\ DurationIdle /\ QueryIdle
    /\ \E T \in {<<v>> : v \in DateVectors} \cup MultiDateVectors,
          cal \in Calendars :
          LET calendars == Array([i \in DOMAIN T |-> cal])
          IN  /\ MultiDate_init_status(T, calendars) = "ok"
              /\ heap = <<T>>
              /\ self = [buf |-> 1, calendars |-> calendars, st |-> "ok"]
              /\ orig = T
    /\ deltat = <<>>
    /\ new_mdate = NoObject
    /\ pc = "new"

\* the calendars whose years are long enough for every duration used to be
\* carried within MaxCarry passes; MaxCarry days and cycles are carried in
\* every calendar
long_year_calendars == month_calendars \cup {"360_day", "365_days_no_months"}

Abs(n) == IF n < 0 THEN - n ELSE n

InReach(multideltat, calendars) ==
    \/ _unique_calendars(calendars) \subseteq long_year_calendars
    \/ \A i \in DOMAIN multideltat :
           /\ Abs(multideltat[i][2]) < MaxCarry
           /\ Abs(multideltat[i][3]) < MaxCarry

\* new_mdate = self + multideltat
Add ==
    \E multideltat \in DeltaTs \cup MultiDeltaTs :
        /\ pc = "new"
        /\ Len(multideltat) \in {1, Len(orig)}
        /\ InReach(multideltat, self.calendars)
        /\ \E r \in {MultiDate___add__(heap, self, multideltat)} :
               heap' = r.heap /\ new_mdate' = r.new_mdate
        /\ deltat' = multideltat
        /\ pc' = "added"
        /\ UNCHANGED <<calres, self, orig, cmp, period, sample, duration, query>>

\* new_mdate = self - multideltat
Sub ==
    \E multideltat \in DeltaTs \cup MultiDeltaTs :
        /\ pc = "new"
        /\ Len(multideltat) \in {1, Len(orig)}
        /\ InReach(multideltat, self.calendars)
        /\ \E r \in {MultiDate___sub__(heap, self, multideltat)} :
               heap' = r.heap /\ new_mdate' = r.new_mdate
        /\ deltat' = multideltat
        /\ pc' = "subtracted"
        /\ UNCHANGED <<calres, self, orig, cmp, period, sample, duration, query>>

\* new_mdate = (self + multideltat) - multideltat, once the sum is there
SubBack ==
    /\ pc = "added"
    /\ new_mdate.st = "ok"
    /\ \E r \in {MultiDate___sub__(heap, new_mdate, deltat)} :
           heap' = r.heap /\ new_mdate' = r.new_mdate
    /\ pc' = "back"
    /\ UNCHANGED <<calres, self, orig, deltat, cmp, period, sample, duration, query>>

NextArith == Add \/ Sub \/ SubBack

SpecArith == InitArith /\ [][NextArith]_vars

\* a duration with exactly one non-zero component
SingleComponent(v) == Cardinality({k \in 1..6 : v[k] # 0}) = 1

\* C1: for every valid Date d and every DeltaT delta with exactly one
\* non-zero component, d + delta returns, (d + delta) - delta returns, and
\* the date it returns holds the six values d was constructed with.
C1_RoundTrip ==
    (/\ Len(orig) = 1
     /\ pc \in {"added", "back"}
     /\ SingleComponent(deltat[1]))
        => /\ new_mdate.st = "ok"
           /\ pc = "back" => heap[new_mdate.buf] = orig

\* C8: in the gregorian calendar October 1582 holds the days 1..4 and
\* 15..31 only, 1582-10-04 plus one day is 1582-10-15 and 1582-10-15 minus
\* one day is 1582-10-04, at the same time of the day.
C8_TransitionDay ==
    /\ days_in_cycle("gregorian", 10, 1582) =
           <<1, 2, 3, 4, 15, 16, 17, 18, 19, 20, 21, 22, 23, 24, 25, 26, 27,
             28, 29, 30, 31>>
    /\ (/\ pc = "added"
        /\ self.calendars = <<"gregorian">>
        /\ SubSeq(orig[1], 1, 3) = <<1582, 10, 4>>
        /\ deltat = <<one_day>>)
           => /\ new_mdate.st = "ok"
              /\ heap[new_mdate.buf] = <<[orig[1] EXCEPT ![3] = 15]>>
    /\ (/\ pc = "subtracted"
        /\ self.calendars = <<"gregorian">>
        /\ SubSeq(orig[1], 1, 3) = <<1582, 10, 15>>
        /\ deltat = <<one_day>>)
           => /\ new_mdate.st = "ok"
              /\ heap[new_mdate.buf] = <<[orig[1] EXCEPT ![3] = 4]>>

C8_Witness ==
    /\ pc = "added"
    /\ self.calendars = <<"gregorian">>
    /\ orig = <<<<1582, 10, 4, 0, 0, 0>>>>
    /\ deltat = <<one_day>>
    /\ new_mdate.st = "ok"
    /\ heap[new_mdate.buf] = <<<<1582, 10, 15, 0, 0, 0>>>>

\* C9: every addition or subtraction of a DeltaT or MultiDeltaT that comes
\* to an end returns a date, and every row of that date is valid for its
\* calendar: the cycle is a cycle of the year, the day is a day of the
\* cycle, 0 <= hour < 24, 0 <= minute < 60 and 0 <= second < 60.
C9_ResultValid ==
    (pc \in {"added", "subtracted", "back"} /\ new_mdate.st # "hang")
        => /\ new_mdate.st = "ok"
           /\ MultiDate_init_status(heap[new_mdate.buf],
                                    new_mdate.calendars) = "ok"

\* C10: after an addition or a subtraction the time vectors of the left
\* operand hold the values they held before.
C10_LeftOperandUnchanged ==
    pc \in {"added", "subtracted"} => heap[self.buf] = orig

-----------------------------------------------------------------------------
(* Comparison of two Dates.  Each Date is constructed from a list of one   *)
(* to six values; the slots the list leaves out are masked, and the        *)
(* constructor fills them.                                                 *)

\* MultiDate.__init__ on one list: the masked cycle becomes 1, the masked
\* day the first day of the cycle, the masked hour, minute and second 0
MultiDate_init_fill(time, calendar) ==
    LET year == time[1]
        cycle == IF Len(time) >= 2 THEN time[2] ELSE 1
        day == IF Len(time) >= 3 THEN time[3]
               ELSE IF days_in_cycle_raises(calendar, cycle, year) THEN 0
               ELSE days_in_cycle(calendar, cycle, year)[1]
    IN  <<year, cycle, day,
          IF Len(time) >= 4 THEN time[4] ELSE 0,
          IF Len(time) >= 5 THEN time[5] ELSE 0,
          IF Len(time) >= 6 THEN time[6] ELSE 0>>

\* Date(time, calendar): the filled time vector and the status of the
\* constructor's checks
Date(time, calendar) ==
    [times |-> <<MultiDate_init_fill(time, calendar)>>,
     calendar |-> calendar,
     st |-> MultiDate_init_status(<<MultiDate_init_fill(time, calendar)>>,
                                  <<calendar>>)]

\* the six slots compared from the seconds up to the year, a and b being
\* time vectors: slot k decides unless a and b agree on it
RECURSIVE gt_warp(_, _, _)
gt_warp(a, b, k) ==
    IF k = 6 THEN a[6] > b[6]
    ELSE (a[k] > b[k]) \/ (a[k] = b[k] /\ gt_warp(a, b, k + 1))

RECURSIVE lt_warp(_, _, _)
lt_warp(a, b, k) ==
    IF k = 6 THEN a[6] < b[6]
    ELSE (a[k] < b[k]) \/ (a[k] = b[k] /\ lt_warp(a, b, k + 1))

RECURSIVE ge_warp(_, _, _)
ge_warp(a, b, k) ==
    IF k = 6 THEN a[6] >= b[6]
    ELSE (a[k] > b[k]) \/ (a[k] = b[k] /\ ge_warp(a, b, k + 1))

RECURSIVE le_warp(_, _, _)
le_warp(a, b, k) ==
    IF k = 6 THEN a[6] <= b[6]
    ELSE (a[k] < b[k]) \/ (a[k] = b[k] /\ le_warp(a, b, k + 1))

\* what a comparison of the Date l with the Date r comes to when its slots
\* give the truth value warp: the other Date is built again as a MultiDate,
\* differing calendars are warned about, and the truth value is returned
compared(op, l, r, warp) ==
    IF MultiDate_init_status(r.times, <<r.calendar>>) # "ok"
    THEN [st |-> "TimelyError", warned |-> FALSE, result |-> FALSE]
    ELSE [st |-> "ok", warned |-> l.calendar # r.calendar, result |-> warp]

MultiDate___gt__(l, r) ==
    compared("gt", l, r, gt_warp(l.times[1], r.times[1], 1))

MultiDate___lt__(l, r) ==
    compared("lt", l, r, lt_warp(l.times[1], r.times[1], 1))

\* >= decided as > is: equal seconds do not make it true
ge_with_strict_seconds(l, r) ==
    compared("ge", l, r, gt_warp(l.times[1], r.times[1], 1))

MultiDate___ge__(l, r) ==
    compared("ge", l, r, ge_warp(l.times[1], r.times[1], 1))

MultiDate___le__(l, r) ==
    compared("le", l, r, le_warp(l.times[1], r.times[1], 1))

\* the lists the two Dates are constructed from, at the resolution of the
\* year, the cycle, the day and the hour
CmpYears == {2000, 2001}
CmpCycles == {1, 6}
CmpDays == {1, 15}
CmpHours == {0, 12}

CmpLists ==
    {<<y>> : y \in CmpYears}
    \cup {<<y, c>> : y \in CmpYears, c \in CmpCycles}
    \cup {<<y, c, d>> : y \in CmpYears, c \in CmpCycles, d \in CmpDays}
    \cup {<<y, c, d, h>> : y \in CmpYears, c \in CmpCycles, d \in CmpDays,
                           h \in CmpHours}

CmpCalendars == {"gregorian", "noleap", "360_day"}

InitCmp ==
    CalIdle /\ ArithIdle /\ CmpIdle /\ PeriodIdle /\ DurationIdle /\ QueryIdle

\* the state after Date(left, lcal) <op> Date(right, rcal) ended in c
Compared(op, left, lcal, right, rcal, l, r, c) ==
    /\ cmp' = [op |-> op, left |-> left, right |-> right, lcal |-> lcal,
               rcal |-> rcal, ltimes |-> l.times, rtimes |-> r.times,
               st |-> c.st, warned |-> c.warned, result |-> c.result]
    /\ UNCHANGED <<calres, heap, self, orig, deltat, new_mdate, pc, period,
                   sample, duration, query>>

\* Date(left, lcal) > Date(right, rcal)
Gt ==
    /\ cmp = NoComparison
    /\ \E left \in CmpLists, lcal \in CmpCalendars :
         \E l \in {Date(left, lcal)} :
           /\ l.st = "ok"
           /\ \E right \in CmpLists, rcal \in CmpCalendars :
                \E r \in {Date(right, rcal)} :
                  /\ r.st = "ok"
                  /\ Compared("gt", left, lcal, right, rcal, l, r,
                              MultiDate___gt__(l, r))

\* Date(left, lcal) < Date(right, rcal)
Lt ==
    /\ cmp = NoComparison
    /\ \E left \in CmpLists, lcal \in CmpCalendars :
         \E l \in {Date(left, lcal)} :
           /\ l.st = "ok"
           /\ \E right \in CmpLists, rcal \in CmpCalendars :
                \E r \in {Date(right, rcal)} :
                  /\ r.st = "ok"
                  /\ Compared("lt", left, lcal, right, rcal, l, r,
                              MultiDate___lt__(l, r))

\* Date(left, lcal) >= Date(right, rcal)
Ge ==
    /\ cmp = NoComparison
    /\ \E left \in CmpLists, lcal \in CmpCalendars :
         \E l \in {Date(left, lcal)} :
           /\ l.st = "ok"
           /\ \E right \in CmpLists, rcal \in CmpCalendars :
                \E r \in {Date(right, rcal)} :
                  /\ r.st = "ok"
                  /\ Compared("ge", left, lcal, right, rcal, l, r,
                              MultiDate___ge__(l, r))

\* Date(left, lcal) <= Date(right, rcal)
Le ==
    /\ cmp = NoComparison
    /\ \E left \in CmpLists, lcal \in CmpCalendars :
         \E l \in {Date(left, lcal)} :
           /\ l.st = "ok"
           /\ \E right \in CmpLists, rcal \in CmpCalendars :
                \E r \in {Date(right, rcal)} :
                  /\ r.st = "ok"
                  /\ Compared("le", left, lcal, right, rcal, l, r,
                              MultiDate___le__(l, r))

NextCmp == Gt \/ Lt \/ Ge \/ Le

SpecCmp == InitCmp /\ [][NextCmp]_vars

\* the two lists agree on every slot that both of them set
AgreeOnSharedSlots(left, right) ==
    \A k \in 1..6 : (k <= Len(left) /\ k <= Len(right)) => left[k] = right[k]

\* C4: a comparison of two Dates of one calendar that were given at
\* different resolutions and agree on every slot set in both raises an
\* ambiguity error and returns no truth value, while
\* Date([2001,1,1]) < Date([2001,6,1]) is True.
C4_AmbiguousComparisonRaises ==
    /\ (/\ cmp.op # "none"
        /\ cmp.lcal = cmp.rcal
        /\ Len(cmp.left) # Len(cmp.right)
        /\ AgreeOnSharedSlots(cmp.left, cmp.right))
           => cmp.st = "AmbiguousComparison"
    /\ (/\ cmp.op = "lt"
        /\ cmp.lcal = cmp.rcal
        /\ cmp.left = <<2001, 1, 1>>
        /\ cmp.right = <<2001, 6, 1>>)
           => (cmp.st = "ok" /\ cmp.result)

\* C5 as the specification words it: a comparison of two Dates bound to
\* different calendars fails with an error and returns no result.
C5_CrossCalendarFails ==
    (cmp.op # "none" /\ cmp.lcal # cmp.rcal) => cmp.st # "ok"

\* the time vector a is later than the time vector b: a holds the greater
\* value in the first slot, from the year down, in which the two differ
Later(a, b) ==
    \E k \in 1..6 : a[k] > b[k] /\ \A j \in 1..(k - 1) : a[j] = b[j]

\* C5 amended: a comparison of two Dates bound to different calendars issues
\* a warning and returns the truth value of the comparison of the two
\* filled time vectors, slot by slot from the year down to the second.
C5_CrossCalendarWarns ==
    (cmp.op # "none" /\ cmp.lcal # cmp.rcal)
        => /\ cmp.st = "ok"
           /\ cmp.warned
           /\ cmp.result <=>
                CASE cmp.op = "gt" -> Later(cmp.ltimes[1], cmp.rtimes[1])
                  [] cmp.op = "lt" -> Later(cmp.rtimes[1], cmp.ltimes[1])
                  [] cmp.op = "ge" -> ~Later(cmp.rtimes[1], cmp.ltimes[1])
                  [] cmp.op = "le" -> ~Later(cmp.ltimes[1], cmp.rtimes[1])

C5_Witness ==
    /\ cmp.op = "ge"
    /\ cmp.lcal = "gregorian"
    /\ cmp.rcal = "noleap"
    /\ cmp.left = <<2001>>
    /\ cmp.right = <<2001, 1, 1>>
    /\ cmp.st = "ok"
    /\ cmp.warned
    /\ cmp.result

-----------------------------------------------------------------------------
(* Period.regular_sample.  A Period is constructed from two lists and a    *)
(* calendar; regular_sample is then called with a DeltaT and no buffer,    *)
(* and each pass of its while loop is one step.                            *)

\* the dates regular_sample has collected when its while loop is left alone
MaxSamples == 370

\* Period.__init__: the checks of MultiDate.__init__ on the two rows, and
\* the initial date must precede the final date
Period_init_status(times, calendar) ==
    IF MultiDate_init_status(times, <<calendar, calendar>>) # "ok"
    THEN "TimelyError"
    ELSE IF ge_warp(times[1], times[2], 1) THEN "TimelyError"
    ELSE "ok"

\* date + deltat for a Date with the time vector times[1]: the time vector
\* of the sum and the way MultiDate.__add__ ended
Date___add__(times, calendar, step) ==
    MultiDate_add_from(times, <<calendar>>, step,
                       MultiDate_init_status(times, <<calendar>>))

\* regular_sample without buffer: initial_date, which is moved by deltat
\* when the period is open on the left
regular_sample_initial(p, step) ==
    IF p.left_open THEN Date___add__(<<p.times[1]>>, p.calendar, step)
    ELSE [T |-> <<p.times[1]>>, st |-> "ok"]

\* the call after next_date = date + deltat ended in n: in its while loop,
\* or left with the exception raised, or caught in a loop of the addition
regular_sample_next(multidate_times, n, step) ==
    [pc |-> IF n.st = "ok" THEN "loop" ELSE n.st, deltat |-> step,
     multidate_times |-> multidate_times, next_date |-> n.T]

\* regular_sample from the test of initial_date against final_date up to
\* the while loop, initial_date having ended in i
regular_sample_entry(p, step, i) ==
    IF i.st # "ok"
    THEN [pc |-> i.st, deltat |-> step, multidate_times |-> <<>>,
          next_date |-> <<>>]
    ELSE IF \/ p.right_open /\ ge_warp(i.T[1], p.times[2], 1)
            \/ ~p.right_open /\ gt_warp(i.T[1], p.times[2], 1)
    THEN [pc |-> "None", deltat |-> step, multidate_times |-> <<>>,
          next_date |-> <<>>]
    ELSE regular_sample_next(<<i.T[1]>>,
                             Date___add__(i.T, p.calendar, step), step)

\* return TimeSeries(multidate_times.data, calendar)
regular_sample_return(p, s) ==
    [s EXCEPT !.pc =
        IF MultiDate_init_status(s.multidate_times,
               Array([i \in DOMAIN s.multidate_times |-> p.calendar])) = "ok"
        THEN "returned" ELSE "TimelyError"]

\* one test of the while condition and, where it holds, one pass
regular_sample_pass(p, s) ==
    IF ~le_warp(s.next_date[1], p.times[2], 1)
    THEN regular_sample_return(p, s)
    ELSE IF p.right_open /\ s.next_date[1] = p.times[2]
    THEN regular_sample_return(p, s)
    ELSE regular_sample_next(Append(s.multidate_times, s.next_date[1]),
                             Date___add__(s.next_date, p.calendar, s.deltat),
                             s.deltat)

\* the lists the periods are constructed from: initial and final date
PeriodLists ==
    {<<<<1979, 1, 1, 0>>, <<1979, 1, 1, 6>>>>,
     <<<<1979, 1, 1>>, <<1980, 1, 1>>>>,
     <<<<2001, 1, 31>>, <<2001, 3, 31>>>>,
     <<<<2001, 1, 15>>, <<2001, 4, 15>>>>,
     <<<<2001, 1, 28>>, <<2001, 3, 30>>>>}

\* the steps regular_sample is called with
SampleSteps ==
    {<<Single(1, 0)>>, <<one_hour>>, <<Single(4, 2)>>, <<one_day>>,
     <<one_cycle>>, <<<<0, 1, 1, 0, 0, 0>>>>}

InitPeriod ==
    /\ CalIdle /\ ArithIdle /\ CmpIdle /\ DurationIdle /\ QueryIdle
    /\ \E lists \in PeriodLists, calendar \in CmpCalendars,
          left_open \in BOOLEAN, right_open \in BOOLEAN :
          \E times \in {<<MultiDate_init_fill(lists[1], calendar),
                          MultiDate_init_fill(lists[2], calendar)>>} :
              /\ Period_init_status(times, calendar) = "ok"
              /\ period = [times |-> times, calendar |-> calendar,
                           left_open |-> left_open,
                           right_open |-> right_open]
    /\ sample = NoSample

\* period.regular_sample(deltat), up to its while loop
RegularSample ==
    \E step \in SampleSteps :
        /\ sample = NoSample
        /\ sample' = regular_sample_entry(period, step,
                         regular_sample_initial(period, step))
        /\ UNCHANGED <<calres, heap, self, orig, deltat, new_mdate, pc, cmp,
                       period, duration, query>>

\* one pass of the while loop of regular_sample
RegularSampleLoop ==
    /\ sample.pc = "loop"
    /\ Len(sample.multidate_times) < MaxSamples
    /\ sample' = regular_sample_pass(period, sample)
    /\ UNCHANGED <<calres, heap, self, orig, deltat, new_mdate, pc, cmp,
                   period, duration, query>>

NextPeriod == RegularSample \/ RegularSampleLoop

SpecPeriod == InitPeriod /\ [][NextPeriod]_vars

\* a step without a negative component and with a positive one
PositiveStep(v) == (\A k \in 1..6 : v[k] >= 0) /\ (\E k \in 1..6 : v[k] > 0)

\* initial + n * step
Stepped(p, step, n) ==
    Date___add__(<<p.times[1]>>, p.calendar, CollectionTime_mul(step, n))

\* C2: for a period closed on the left and a positive step with
\* final == initial + n * step, regular_sample(step) comes to an end and
\* returns exactly the dates initial + k * step, in this order, for
\* k = 0..n, or for k = 0..n-1 when the period is open on the right.
C2_RegularSampleDates ==
    (/\ sample.pc \notin {"none", "loop"}
     /\ ~period.left_open
     /\ PositiveStep(sample.deltat[1]))
        => \A n \in 1..MaxSamples :
               (/\ Stepped(period, sample.deltat, n).st = "ok"
                /\ Stepped(period, sample.deltat, n).T = <<period.times[2]>>)
                   => /\ sample.pc = "returned"
                      /\ sample.multidate_times =
                             [k \in 1..(IF period.right_open THEN n
                                        ELSE n + 1) |->
                                 Stepped(period, sample.deltat, k - 1).T[1]]

\* C3: regular_sample called with a step of zero length is rejected with an
\* error before its while loop: it collects no date and is never found in
\* the loop.
C3_ZeroStepRejected ==
    (sample.pc # "none" /\ sample.deltat = <<Single(1, 0)>>)
        => /\ sample.pc \notin {"loop", "returned", "None", "hang"}
           /\ sample.multidate_times = <<>>

-----------------------------------------------------------------------------
(* Normalisation of a duration: a DeltaT is constructed with integer       *)
(* slots, none of them masked, and seconds_to_minutes, minutes_to_hours    *)
(* and hours_to_days are applied to it, in place.                          *)

\* slot values of the durations run from -MaxSlot to MaxSlot
MaxSlot == 125

\* the normalisations applied to one duration
MaxApplied == 2

\* ma.array(x / modulus, dtype=myint): the quotient cut towards zero
quotient_cut(x, modulus) ==
    IF x >= 0 THEN x \div modulus ELSE - ((- x) \div modulus)

\* np.copysign(np.mod(np.abs(x), modulus), x) stored in an integer slot
copysign_mod(x, modulus) ==
    IF x < 0 THEN - ((- x) % modulus) ELSE x % modulus

\* the part of a conversion done where the slot is over: the quotient goes
\* to the slot above, the slot keeps the rest with its sign
convert_over(times, slot, modulus) ==
    IF Abs(times[slot]) >= modulus
    THEN [times EXCEPT
             ![slot - 1] = @ + quotient_cut(times[slot], modulus),
             ![slot] = copysign_mod(times[slot], modulus)]
    ELSE times

\* the part of a conversion done where the slot was negative when the
\* conversion began: the slot gains the modulus, the slot above loses one
convert_under(times, slot, modulus, under) ==
    IF under
    THEN [times EXCEPT ![slot] = @ + modulus, ![slot - 1] = @ - 1]
    ELSE times

seconds_to_minutes(times) ==
    convert_under(convert_over(times, 6, 60), 6, 60, times[6] < 0)

minutes_to_hours(times) ==
    convert_under(convert_over(times, 5, 60), 5, 60, times[5] < 0)

hours_to_days(times) ==
    convert_under(convert_over(times, 4, 24), 4, 24, times[4] < 0)

\* the durations constructed: one of the three lower slots takes every
\* value, the slot above it 0 or 5
DurationVectors ==
    {<<0, 0, 0, 0, above, v>> : above \in {0, 5}, v \in (- MaxSlot)..MaxSlot}
    \cup {<<0, 0, 0, above, v, 0>> :
              above \in {0, 5}, v \in (- MaxSlot)..MaxSlot}
    \cup {<<0, 0, above, v, 0, 0>> :
              above \in {0, 5}, v \in (- MaxSlot)..MaxSlot}

InitDuration ==
    /\ CalIdle /\ ArithIdle /\ CmpIdle /\ PeriodIdle /\ QueryIdle
    /\ \E times \in DurationVectors :
           duration = [times |-> times, given |-> times, previous |-> times,
                       applied |-> <<>>]

\* the duration after the method fn has left its time vector as times
Converted(fn, times) ==
    /\ Len(duration.applied) < MaxApplied
    /\ duration' = [duration EXCEPT !.times = times,
                                    !.previous = duration.times,
                                    !.applied = Append(@, fn)]
    /\ UNCHANGED <<calres, heap, self, orig, deltat, new_mdate, pc, cmp,
                   period, sample, query>>

SecondsToMinutes ==
    Converted("seconds_to_minutes", seconds_to_minutes(duration.times))

MinutesToHours ==
    Converted("minutes_to_hours", minutes_to_hours(duration.times))

HoursToDays ==
    Converted("hours_to_days", hours_to_days(duration.times))

NextDuration == SecondsToMinutes \/ MinutesToHours \/ HoursToDays

SpecDuration == InitDuration /\ [][NextDuration]_vars

\* the slot a normalisation converts, and its modulus
SlotOf(fn) ==
    CASE fn = "seconds_to_minutes" -> 6
      [] fn = "minutes_to_hours" -> 5
      [] fn = "hours_to_days" -> 4

ModulusOf(fn) == IF fn = "hours_to_days" THEN 24 ELSE 60

\* C11: after one normalisation of a duration given with the value s in the
\* converted slot and m in the slot above, the slot holds s mod modulus and
\* the slot above m + floor(s / modulus), for every integer s.
C11_FloorAndRest ==
    Len(duration.applied) = 1 =>
        LET fn == duration.applied[1]
            slot == SlotOf(fn)
        IN  /\ duration.times[slot] = duration.given[slot] % ModulusOf(fn)
            /\ duration.times[slot - 1] =
                   duration.given[slot - 1]
                   + (duration.given[slot] \div ModulusOf(fn))

\* C12: a normalisation applied a second time changes nothing, and a
\* normalisation applied to a duration whose slot is within range changes
\* nothing.
C12_Idempotent ==
    /\ (/\ Len(duration.applied) = 2
        /\ duration.applied[1] = duration.applied[2])
           => duration.times = duration.previous
    /\ (/\ Len(duration.applied) >= 1
        /\ LET fn == duration.applied[Len(duration.applied)]
           IN  duration.previous[SlotOf(fn)] \in 0..(ModulusOf(fn) - 1))
           => duration.times = duration.previous

-----------------------------------------------------------------------------
(* Equality of two DeltaT with integer slots.                              *)

\* DeltaT.__eq__ on each operand: MultiDeltaT(times[...]) works on a view
\* of the operand's time vector; the propagate_*_decimals methods leave
\* integer slots as they are, then the three normalisations run in place
DeltaT_eq_normalised(times) ==
    hours_to_days(minutes_to_hours(seconds_to_minutes(times)))

\* DeltaT.__eq__ on the normalised time vectors a and b: True, the
\* exception raised, or False
DeltaT_eq_decided(a, b) ==
    IF a = b THEN [st |-> "ok", result |-> TRUE]
    ELSE IF (a[1] # 0) /\ ((b[2] # 0) \/ (b[3] # 0))
    THEN [st |-> "TimelyError", result |-> FALSE]
    ELSE IF (b[1] # 0) /\ ((a[2] # 0) \/ (a[3] # 0))
    THEN [st |-> "TimelyError", result |-> FALSE]
    ELSE IF (a[2] # 0) /\ (b[3] # 0)
    THEN [st |-> "TimelyError", result |-> FALSE]
    ELSE IF (b[2] # 0) /\ (a[3] # 0)
    THEN [st |-> "TimelyError", result |-> FALSE]
    ELSE [st |-> "ok", result |-> FALSE]

DeltaT___eq__(left, right) ==
    DeltaT_eq_decided(DeltaT_eq_normalised(left),
                      DeltaT_eq_normalised(right))

\* the durations compared
EqVectors ==
    {<<y, c, d, h, m, sec>> :
        y \in {0, 1}, c \in {0, 1}, d \in {0, 1}, h \in {-24, 0, 24},
        m \in {-1, 0}, sec \in {-60, 0, 60}}

InitEq ==
    CalIdle /\ ArithIdle /\ CmpIdle /\ PeriodIdle /\ DurationIdle /\ QueryIdle

\* DeltaT(left) == DeltaT(right)
DeltaTEq ==
    \E left \in EqVectors, right \in EqVectors :
        /\ query = NoAnswer
        /\ \E r \in {DeltaT___eq__(left, right)} :
               query' = [fn |-> "DeltaT.__eq__", left |-> left,
                         right |-> right, st |-> r.st, result |-> r.result]
        /\ UNCHANGED <<calres, heap, self, orig, deltat, new_mdate, pc, cmp,
                       period, sample, duration>>

NextEq == DeltaTEq

SpecEq == InitEq /\ [][NextEq]_vars

\* a duration with its time of day brought into range: the seconds of its
\* day, hour, minute and second slots as whole days, hours (0..23),
\* minutes (0..59) and seconds (0..59)
TimeOfDayNormalised(v) ==
    LET total == ((v[3] * 24 + v[4]) * 60 + v[5]) * 60 + v[6]
    IN  <<v[1], v[2], total \div 86400, (total \div 3600) % 24,
          (total \div 60) % 60, total % 60>>

\* one of the durations a, b has a year and the other a cycle or a day, or
\* one has a cycle and the other a day
MixedUnits(a, b) ==
    \/ (a[1] # 0) /\ ((b[2] # 0) \/ (b[3] # 0))
    \/ (b[1] # 0) /\ ((a[2] # 0) \/ (a[3] # 0))
    \/ (a[2] # 0) /\ (b[3] # 0)
    \/ (b[2] # 0) /\ (a[3] # 0)

\* C13: DeltaT == DeltaT returns True when the two durations, with their
\* time of day normalised, are identical; otherwise it raises when they
\* mix a year with a cycle or a day, or a cycle with a day, and returns
\* False in every remaining case.
C13_EqualityOfDurations ==
    query.fn = "DeltaT.__eq__" =>
        LET a == TimeOfDayNormalised(query.left)
            b == TimeOfDayNormalised(query.right)
        IN  IF a = b THEN query.st = "ok" /\ query.result
            ELSE IF MixedUnits(a, b) THEN query.st = "TimelyError"
            ELSE query.st = "ok" /\ ~query.result

-----------------------------------------------------------------------------
(* Periods: construction, contains and overlap.  A behaviour constructs    *)
(* one Period, with Period(...) or with explicit_period(...), and then     *)
(* asks it one question.                                                   *)

\* period.initial_date() and period.final_date()
Period_initial_date(p) == Date(p.times[1], p.calendar)

Period_final_date(p) == Date(p.times[2], p.calendar)

\* Period.__init__ with >= read as >: a period of no extent is accepted
Period_init_accepts_equal(times, left_open, right_open, calendar) ==
    LET filled == <<MultiDate_init_fill(times[1], calendar),
                    MultiDate_init_fill(times[2], calendar)>>
        st == IF MultiDate_init_status(filled, <<calendar, calendar>>) # "ok"
              THEN "TimelyError"
              ELSE IF gt_warp(filled[1], filled[2], 1) THEN "TimelyError"
              ELSE "ok"
    IN  [st |-> st, initial |-> filled[1], final |-> filled[2],
         period |-> IF st = "ok"
                    THEN [times |-> filled, calendar |-> calendar,
                          left_open |-> left_open, right_open |-> right_open]
                    ELSE NoPeriod]

\* Period(times, left_open, right_open, calendar): the way the constructor
\* ended, the two filled time vectors, and the Period when there is one
Period(times, left_open, right_open, calendar) ==
    LET filled == <<MultiDate_init_fill(times[1], calendar),
                    MultiDate_init_fill(times[2], calendar)>>
        st == Period_init_status(filled, calendar)
    IN  [st |-> st, initial |-> filled[1], final |-> filled[2],
         period |-> IF st = "ok"
                    THEN [times |-> filled, calendar |-> calendar,
                          left_open |-> left_open, right_open |-> right_open]
                    ELSE NoPeriod]

\* explicit_period(initial_date, final_date, left_open, right_open), the
\* two arguments being Dates
explicit_period(initial_date, final_date, left_open, right_open) ==
    IF initial_date.calendar # final_date.calendar
    THEN [st |-> "TimelyError", initial |-> initial_date.times[1],
          final |-> final_date.times[1], period |-> NoPeriod]
    ELSE Period(<<initial_date.times[1], final_date.times[1]>>, left_open,
                right_open, initial_date.calendar)

\* `x and y` / `x or y` on two comparisons, y being evaluated only when x
\* does not decide
both(x, y) ==
    IF x.st # "ok" \/ ~x.result THEN x
    ELSE [st |-> y.st, warned |-> x.warned \/ y.warned, result |-> y.result]

either(x, y) ==
    IF x.st # "ok" \/ x.result THEN x
    ELSE [st |-> y.st, warned |-> x.warned \/ y.warned, result |-> y.result]

\* contains with the end points of a closed side counted in
contains_closed_end_points(p, other) ==
    both(IF p.left_open THEN MultiDate___lt__(Period_initial_date(p), other)
         ELSE MultiDate___le__(Period_initial_date(p), other),
         IF p.right_open THEN MultiDate___gt__(Period_final_date(p), other)
         ELSE MultiDate___ge__(Period_final_date(p), other))

\* period.contains(other), other being a Date
Period_contains(p, other) ==
    both(MultiDate___lt__(Period_initial_date(p), other),
         MultiDate___gt__(Period_final_date(p), other))

\* overlap with a shared end point counted as no overlap
overlap_needs_interior(p, other) ==
    LET apart == either(MultiDate___ge__(Period_initial_date(p),
                                         Period_final_date(other)),
                        MultiDate___ge__(Period_initial_date(other),
                                         Period_final_date(p)))
    IN  [st |-> apart.st, warned |-> apart.warned,
         result |-> apart.st = "ok" /\ ~apart.result]

\* period.overlap(other), other being a Period
Period_overlap(p, other) ==
    LET apart == either(MultiDate___gt__(Period_initial_date(p),
                                         Period_final_date(other)),
                        MultiDate___gt__(Period_initial_date(other),
                                         Period_final_date(p)))
    IN  [st |-> apart.st, warned |-> apart.warned,
         result |-> apart.st = "ok" /\ ~apart.result]

\* the lists the end points and the dates are given as
EndLists ==
    {<<2000>>, <<2000, 2>>, <<2000, 2, 1>>, <<2000, 2, 1, 12>>,
     <<2000, 2, 30>>, <<2000, 3, 1>>, <<2001>>,
     <<1999, 12, 30, 23, 59, 59>>}

EndCalendars == {"gregorian", "360_day"}

\* the Periods another Period is compared with
OtherPeriods ==
    {r.period : r \in {Period(<<a, b>>, lo, ro, calendar) :
                         a \in EndLists, b \in EndLists, lo \in BOOLEAN,
                         ro \in BOOLEAN, calendar \in EndCalendars}}
    \ {NoPeriod}

InitShape ==
    CalIdle /\ ArithIdle /\ CmpIdle /\ PeriodIdle /\ DurationIdle /\ QueryIdle

\* the state after a construction that ended as r
Constructed(fn, lcal, rcal, left_open, right_open, r) ==
    /\ query' = [fn |-> fn, initial |-> r.initial, final |-> r.final,
                 lcal |-> lcal, rcal |-> rcal, left_open |-> left_open,
                 right_open |-> right_open, st |-> r.st]
    /\ period' = r.period
    /\ UNCHANGED <<calres, heap, self, orig, deltat, new_mdate, pc, cmp,
                   sample, duration>>

\* Period([initial, final], left_open, right_open, calendar), the two rows
\* being lists of one length
PeriodNew ==
    /\ query = NoAnswer
    /\ \E initial \in EndLists, final \in EndLists, calendar \in EndCalendars,
          left_open \in BOOLEAN, right_open \in BOOLEAN :
          /\ Len(initial) = Len(final)
          /\ Constructed("Period", calendar, calendar, left_open, right_open,
                         Period(<<initial, final>>, left_open, right_open,
                                calendar))

\* explicit_period(Date(initial, lcal), Date(final, rcal), left_open,
\* right_open)
ExplicitPeriod ==
    /\ query = NoAnswer
    /\ \E initial \in EndLists, lcal \in EndCalendars :
         \E l \in {Date(initial, lcal)} :
           /\ l.st = "ok"
           /\ \E final \in EndLists, rcal \in EndCalendars :
                \E r \in {Date(final, rcal)} :
                  /\ r.st = "ok"
                  /\ \E left_open \in BOOLEAN, right_open \in BOOLEAN :
                       Constructed("explicit_period", lcal, rcal, left_open,
                                   right_open,
                                   explicit_period(l, r, left_open,
                                                   right_open))

\* period.contains(Date(other, calendar))
Contains ==
    /\ period # NoPeriod
    /\ query.fn \in {"Period", "explicit_period"}
    /\ \E other \in EndLists, calendar \in EndCalendars :
         \E d \in {Date(other, calendar)} :
           /\ d.st = "ok"
           /\ \E c \in {Period_contains(period, d)} :
                query' = [fn |-> "contains", other |-> d.times[1],
                          calendar |-> calendar, st |-> c.st,
                          result |-> c.result]
    /\ UNCHANGED <<calres, heap, self, orig, deltat, new_mdate, pc, cmp,
                   period, sample, duration>>

\* period.overlap(other) and other.overlap(period)
Overlap ==
    /\ period # NoPeriod
    /\ query.fn \in {"Period", "explicit_period"}
    /\ \E other \in OtherPeriods :
         \E c \in {Period_overlap(period, other)},
            back \in {Period_overlap(other, period)} :
                query' = [fn |-> "overlap", other |-> other, st |-> c.st,
                          result |-> c.result, back_st |-> back.st,
                          back_result |-> back.result]
    /\ UNCHANGED <<calres, heap, self, orig, deltat, new_mdate, pc, cmp,
                   period, sample, duration>>

NextShape == PeriodNew \/ ExplicitPeriod \/ Contains \/ Overlap

SpecShape == InitShape /\ [][NextShape]_vars

\* C14: a Period is constructed, by Period(...) or by explicit_period(...),
\* only when its initial date strictly precedes its final date; with
\* initial >= final the construction fails with TimelyError whatever
\* left_open and right_open are, so that every Period there is has
\* initial < final.
C14_InitialPrecedesFinal ==
    /\ (query.fn \in {"Period", "explicit_period"}
        /\ ~Later(query.final, query.initial))
           => (query.st = "TimelyError" /\ period = NoPeriod)
    /\ (period # NoPeriod) => Later(period.times[2], period.times[1])

\* a construction from two equal dates of one calendar, open on both sides,
\* has failed
C14_Witness ==
    /\ query.fn = "explicit_period"
    /\ query.lcal = query.rcal
    /\ query.initial = query.final
    /\ query.left_open /\ query.right_open
    /\ query.st = "TimelyError"

\* C15: period.contains(date) is True exactly when initial < date < final,
\* both strictly, for each of the four combinations of left_open and
\* right_open: a date equal to an end point is never contained.
C15_ContainsIsStrict ==
    query.fn = "contains" =>
        /\ query.st = "ok"
        /\ query.result <=> (/\ Later(query.other, period.times[1])
                             /\ Later(period.times[2], query.other))

\* the date is the initial date of a period closed on the left, and is not
\* contained
C15_Witness ==
    /\ query.fn = "contains"
    /\ query.other = period.times[1]
    /\ ~period.left_open
    /\ query.st = "ok" /\ ~query.result

\* C16: p.overlap(q) is False exactly when p.initial > q.final or
\* q.initial > p.final; it gives the same answer as q.overlap(p), and it is
\* True for two periods that share an end point only, whatever their
\* left_open and right_open.
C16_OverlapSymmetric ==
    query.fn = "overlap" =>
        /\ query.st = "ok" /\ query.back_st = "ok"
        /\ query.result = query.back_result
        /\ ~query.result <=> (\/ Later(period.times[1], query.other.times[2])
                              \/ Later(query.other.times[1], period.times[2]))

\* two periods that share an end point only, both open at it, overlap
C16_Witness ==
    /\ query.fn = "overlap"
    /\ period.times[2] = query.other.times[1]
    /\ period.right_open /\ query.other.left_open
    /\ query.st = "ok" /\ query.result

-----------------------------------------------------------------------------
(* The length of a Period.  The count_* methods return integers; len      *)
(* divides by a float, and its result is kept as the exact quotient       *)
(* num / den.                                                             *)

RECURSIVE days_in_years(_, _, _)
days_in_years(cal, y, last) ==
    IF y > last THEN 0
    ELSE count_days_in_year(cal, y) + days_in_years(cal, y + 1, last)

RECURSIVE days_in_cycles(_, _, _, _)
days_in_cycles(cal, year, cc, last) ==
    IF cc > last THEN 0
    ELSE count_days_in_cycle(cal, cc, year)
             + days_in_cycles(cal, year, cc + 1, last)

\* period.count_days(): the days of the years from the initial to the final
\* one, less the days before the initial date in its year, the days after
\* the final date in its year, and the two flags of the open sides
MultiPeriod_count_days(p) ==
    LET T == p.times
        cal == p.calendar
        flag_left_open == p.left_open /\ T[1][4] = 23 /\ T[1][5] = 59
                                      /\ T[1][6] = 59
        flag_right_open == p.right_open /\ T[2][4] = 0 /\ T[2][5] = 0
                                        /\ T[2][6] = 0
        day_num_in_cycle == day_number_in_cycle(T, <<cal, cal>>)
        between == days_in_years(cal, T[1][1], T[2][1])
        initial == (day_num_in_cycle[1] - 1)
                       + days_in_cycles(cal, T[1][1], 1, T[1][2] - 1)
        final == days_in_cycles(cal, T[2][1], T[2][2] + 1,
                                count_cycles_in_year(cal, T[2][1]))
                     + (count_days_in_cycle(cal, T[2][2], T[2][1])
                            - day_num_in_cycle[2])
    IN  between - initial - final - B(flag_left_open) - B(flag_right_open)

MultiPeriod_count_hours(p) ==
    LET T == p.times
        flag_left_open_hour == p.left_open /\ T[1][5] = 59 /\ T[1][6] = 59
        flag_left_open == p.left_open /\ T[1][4] = 23 /\ T[1][5] = 59
                                      /\ T[1][6] = 59
        flag_right_open_hour == p.right_open /\ T[2][5] = 0 /\ T[2][6] = 0
        flag_right_open == p.right_open /\ T[2][4] = 0 /\ T[2][5] = 0
                                        /\ T[2][6] = 0
        t1 == -(T[1][4] + B(flag_left_open_hour)) * B(~flag_left_open)
        t2 == -(23 - T[2][4] + B(flag_right_open_hour)) * B(~flag_right_open)
    IN  MultiPeriod_count_days(p) * 24 + t1 + t2

\* count_minutes with the minutes before the initial date and after the
\* final date taken off whatever the hour flags are
count_minutes_minute_flags_only(p) ==
    LET T == p.times
        flag_left_open == p.left_open /\ T[1][6] = 59
        flag_right_open == p.right_open /\ T[2][6] = 0
        t1 == -(T[1][5] + B(flag_left_open))
        t2 == -(59 - T[2][5] + B(flag_right_open))
    IN  MultiPeriod_count_hours(p) * 60 + t1 + t2

MultiPeriod_count_minutes(p) ==
    LET T == p.times
        flag_left_open_hour == p.left_open /\ T[1][5] = 59 /\ T[1][6] = 59
        flag_left_open == p.left_open /\ T[1][6] = 59
        flag_right_open_hour == p.right_open /\ T[2][5] = 0 /\ T[2][6] = 0
        flag_right_open == p.right_open /\ T[2][6] = 0
        t1 == -(T[1][5] + B(flag_left_open)) * B(~flag_left_open_hour)
        t2 == -(59 - T[2][5] + B(flag_right_open)) * B(~flag_right_open_hour)
    IN  MultiPeriod_count_hours(p) * 60 + t1 + t2

MultiPeriod_count_seconds(p) ==
    LET T == p.times
        flag_left_open == p.left_open /\ T[1][6] = 59
        flag_right_open == p.right_open /\ T[2][6] = 0
        t1 == -(T[1][6] + B(p.left_open)) * B(~flag_left_open)
        t2 == -(59 - T[2][6] + B(p.right_open)) * B(~flag_right_open)
    IN  MultiPeriod_count_minutes(p) * 60 + t1 + t2

\* period.len(units)
MultiPeriod_len(p, units) ==
    CASE units = "seconds" -> [num |-> MultiPeriod_count_seconds(p), den |-> 1]
      [] units = "minutes" -> [num |-> MultiPeriod_count_seconds(p), den |-> 60]
      [] units = "hours" -> [num |-> MultiPeriod_count_seconds(p), den |-> 360]
      [] units = "days" -> [num |-> MultiPeriod_count_seconds(p),
                            den |-> 86400]

\* the end points of the periods that are measured
LenLists ==
    {<<<<2000, 1, 1>>, <<2000, 1, 2>>>>,
     <<<<2000, 2, 28>>, <<2000, 3, 1>>>>,
     <<<<2000, 1, 1, 6>>, <<2000, 1, 1, 18>>>>,
     <<<<2000, 1, 1, 6, 30, 0>>, <<2000, 1, 1, 6, 30, 1>>>>,
     <<<<1999, 12, 31, 23, 59, 59>>, <<2000, 1, 1, 0, 0, 0>>>>,
     <<<<1582, 10, 4>>, <<1582, 10, 15>>>>,
     <<<<2000>>, <<2001>>>>}

LenUnits == {"seconds", "minutes", "hours", "days"}

InitLen ==
    CalIdle /\ ArithIdle /\ CmpIdle /\ PeriodIdle /\ DurationIdle /\ QueryIdle

\* Period(lists, left_open, right_open, calendar).len(units), and the
\* len('seconds') of the same period
PeriodLen ==
    /\ query = NoAnswer
    /\ \E lists \in LenLists, calendar \in CmpCalendars,
          left_open \in BOOLEAN, right_open \in BOOLEAN :
         \E r \in {Period(lists, left_open, right_open, calendar)} :
           /\ r.st = "ok"
           /\ period' = r.period
           /\ \E units \in LenUnits :
                query' = [fn |-> "len", units |-> units,
                          value |-> MultiPeriod_len(r.period, units),
                          seconds |-> MultiPeriod_len(r.period, "seconds")]
    /\ UNCHANGED <<calres, heap, self, orig, deltat, new_mdate, pc, cmp,
                   sample, duration>>

NextLen == PeriodLen

SpecLen == InitLen /\ [][NextLen]_vars

RECURSIVE GCD(_, _)
GCD(a, b) == IF b = 0 THEN a ELSE GCD(b, a % b)

\* the quotient num / den in lowest terms, den being positive
LowestTerms(num, den) ==
    LET g == GCD(Abs(num), den) IN <<num \div g, den \div g>>

\* the quotient q is the quotient s divided by k
QuotientOf(q, s, k) ==
    LowestTerms(q.num, q.den) = LowestTerms(s.num, s.den * k)

\* C17: len('minutes') is len('seconds') / 60, len('hours') is
\* len('seconds') / 3600 and len('days') is len('seconds') / 86400.
C17_LenUnits ==
    query.fn = "len" =>
        /\ query.units = "minutes" => QuotientOf(query.value, query.seconds, 60)
        /\ query.units = "hours" => QuotientOf(query.value, query.seconds, 3600)
        /\ query.units = "days" => QuotientOf(query.value, query.seconds, 86400)

-----------------------------------------------------------------------------
(* regular_division, called without buffer on the period regular_sample   *)
(* was called on, with the same deltat.                                   *)

\* period.regular_division(deltat, None, length): a Date has the attributes
\* times, calendars and calendar; the read of initial_date.time that
\* follows the test of initial_date against final_date raises
regular_division(p, step, length) ==
    LET i == regular_sample_initial(p, step)
    IN  IF i.st # "ok" THEN [st |-> i.st, windows |-> <<>>]
        ELSE IF \/ p.right_open /\ ge_warp(i.T[1], p.times[2], 1)
                \/ ~p.right_open /\ gt_warp(i.T[1], p.times[2], 1)
        THEN [st |-> "None", windows |-> <<>>]
        ELSE [st |-> "AttributeError", windows |-> <<>>]

\* the lengths of the divisions
DivisionLengths == {<<one_hour>>, <<one_day>>}

InitDivision == InitPeriod

\* period.regular_division(deltat, None, length), deltat being the step of
\* the regular_sample that has returned
RegularDivision ==
    /\ sample.pc \in {"returned", "None"}
    /\ query = NoAnswer
    /\ \E length \in DivisionLengths :
         \E r \in {regular_division(period, sample.deltat, length)} :
            query' = [fn |-> "regular_division", length |-> length,
                      st |-> r.st, windows |-> r.windows]
    /\ UNCHANGED <<calres, heap, self, orig, deltat, new_mdate, pc, cmp,
                   period, sample, duration>>

NextDivision == RegularSample \/ RegularSampleLoop \/ RegularDivision

SpecDivision == InitDivision /\ [][NextDivision]_vars

\* C18: regular_division(step, buffer, length) returns sub-periods, one for
\* each date regular_sample(step, buffer) produces, the k-th running from
\* that date to that date + length.
C18_DivisionFollowsSample ==
    (query.fn = "regular_division" /\ sample.pc = "returned") =>
        /\ query.st = "returned"
        /\ Len(query.windows) = Len(sample.multidate_times)
        /\ \A k \in DOMAIN query.windows :
             /\ query.windows[k][1] = sample.multidate_times[k]
             /\ query.windows[k][2] =
                    Date___add__(<<sample.multidate_times[k]>>,
                                 period.calendar, query.length).T[1]

-----------------------------------------------------------------------------
(* The earliest and the latest date of a MultiDate.                       *)

\* the least and the greatest value of slot j over the time vectors T
SlotMin(T, j) ==
    CHOOSE m \in {T[i][j] : i \in DOMAIN T} : \A i \in DOMAIN T : m <= T[i][j]

SlotMax(T, j) ==
    CHOOSE m \in {T[i][j] : i \in DOMAIN T} : \A i \in DOMAIN T : m >= T[i][j]

\* the loop of min: slot j is the least value the remaining time vectors
\* have there, and those that have it remain
RECURSIVE min_time_from(_, _)
min_time_from(remains, j) ==
    IF j > 6 THEN <<>>
    ELSE LET m == SlotMin(remains, j)
         IN  <<m>> \o min_time_from(SelectSeq(remains, LAMBDA t : t[j] = m),
                                    j + 1)

RECURSIVE max_time_from(_, _)
max_time_from(remains, j) ==
    IF j > 6 THEN <<>>
    ELSE LET m == SlotMax(remains, j)
         IN  <<m>> \o max_time_from(SelectSeq(remains, LAMBDA t : t[j] = m),
                                    j + 1)

\* min with every slot taken over all the time vectors
min_of_each_slot(T, calendars) ==
    IF Cardinality(_unique_calendars(calendars)) # 1
    THEN [st |-> "NotImplementedError", times |-> <<>>]
    ELSE LET d == Date([j \in 1..6 |-> SlotMin(T, j)], calendars[1])
         IN  [st |-> d.st, times |-> d.times]

\* multidate.min(): the Date it returns, or the exception it raises
MultiDate_min(T, calendars) ==
    IF Cardinality(_unique_calendars(calendars)) # 1
    THEN [st |-> "NotImplementedError", times |-> <<>>]
    ELSE LET d == Date(min_time_from(T, 1), calendars[1])
         IN  [st |-> d.st, times |-> d.times]

\* multidate.max()
MultiDate_max(T, calendars) ==
    IF Cardinality(_unique_calendars(calendars)) # 1
    THEN [st |-> "NotImplementedError", times |-> <<>>]
    ELSE LET d == Date(max_time_from(T, 1), calendars[1])
         IN  [st |-> d.st, times |-> d.times]

\* the dates of the MultiDates, and the number of dates of the longest
ExtentVectors ==
    {<<1999, 12, 31, 23, 59, 59>>, <<2000, 1, 1, 0, 0, 0>>,
     <<2000, 1, 1, 0, 0, 1>>, <<2000, 1, 2, 0, 0, 0>>,
     <<2000, 2, 1, 0, 30, 0>>, <<2001, 1, 1, 12, 0, 0>>}

MaxDates == 3

ExtentTimes ==
    UNION {[1..n -> ExtentVectors] : n \in 1..MaxDates}

\* the calendars of the dates: one for all of them, or another one for the
\* first date
ExtentCalendars(T) ==
    {[i \in DOMAIN T |-> "gregorian"], [i \in DOMAIN T |-> "noleap"]}
    \cup (IF Len(T) > 1
          THEN {[i \in DOMAIN T |-> IF i = 1 THEN "noleap" ELSE "gregorian"]}
          ELSE {})

InitExtent ==
    CalIdle /\ ArithIdle /\ CmpIdle /\ PeriodIdle /\ DurationIdle /\ QueryIdle

\* the state after fn ended as r on MultiDate(T, calendars)
Extent(fn, T, calendars, r) ==
    /\ query' = [fn |-> fn, times |-> T, calendars |-> calendars,
                 st |-> r.st, result |-> r.times]
    /\ UNCHANGED <<calres, heap, self, orig, deltat, new_mdate, pc, cmp,
                   period, sample, duration>>

\* MultiDate(T, calendars).min()
Min ==
    /\ query = NoAnswer
    /\ \E T \in ExtentTimes :
         \E calendars \in ExtentCalendars(T) :
            /\ MultiDate_init_status(T, calendars) = "ok"
            /\ Extent("min", T, calendars, MultiDate_min(T, calendars))

\* MultiDate(T, calendars).max()
Max ==
    /\ query = NoAnswer
    /\ \E T \in ExtentTimes :
         \E calendars \in ExtentCalendars(T) :
            /\ MultiDate_init_status(T, calendars) = "ok"
            /\ Extent("max", T, calendars, MultiDate_max(T, calendars))

NextExtent == Min \/ Max

SpecExtent == InitExtent /\ [][NextExtent]_vars

\* C19: for a MultiDate of one calendar, min() and max() each return one
\* of its dates, and min() <= e <= max() holds for every date e of it, in
\* the order of the time vectors read from the year down to the second.
C19_MinMaxAreBounds ==
    (/\ query.fn \in {"min", "max"}
     /\ Cardinality(_unique_calendars(query.calendars)) = 1)
        => /\ query.st = "ok"
           /\ \E i \in DOMAIN query.times : query.times[i] = query.result[1]
           /\ \A i \in DOMAIN query.times :
                IF query.fn = "min"
                THEN ~Later(query.result[1], query.times[i])
                ELSE ~Later(query.times[i], query.result[1])

\* min() of three dates whose least slots are not those of one date
C19_Witness ==
    /\ query.fn = "min"
    /\ query.times = <<<<2000, 1, 2, 0, 0, 0>>, <<1999, 12, 31, 23, 59, 59>>,
                       <<2000, 2, 1, 0, 30, 0>>>>
    /\ query.st = "ok"
    /\ query.result = <<<<1999, 12, 31, 23, 59, 59>>>>

-----------------------------------------------------------------------------
(* The construction of a Date from a list.  A slot of the list is <<v>>,  *)
(* the number v, or <<>>, None.                                           *)

None == <<>>

\* _conversion_to_ma of a list of numbers and None: the six values, 0 in
\* the place of None and of the slots the list does not reach, and the mask
_conversion_to_ma(time_vector) ==
    [data |-> [i \in 1..6 |->
                  IF i <= Len(time_vector) /\ time_vector[i] # None
                  THEN time_vector[i][1] ELSE 0],
     mask |-> [i \in 1..6 |->
                  i > Len(time_vector) \/ time_vector[i] = None]]

\* the test with flag_masked_previous left at the mask of the year
unmasked_follows_first_masked(mask) ==
    mask[1] /\ \E i \in 2..6 : ~mask[i]

\* an unmasked slot follows a masked one
unmasked_follows_masked(mask) ==
    \E i \in 2..6 : mask[i - 1] /\ ~mask[i]

\* the time vector after MultiDate.__init__ has filled its masked slots
MultiDate_init_filled(m, calendar) ==
    LET year == m.data[1]
        cycle == IF m.mask[2] THEN 1 ELSE m.data[2]
        day == IF ~m.mask[3] THEN m.data[3]
               ELSE IF days_in_cycle_raises(calendar, cycle, year) THEN 0
               ELSE days_in_cycle(calendar, cycle, year)[1]
    IN  <<year, cycle, day,
          IF m.mask[4] THEN 0 ELSE m.data[4],
          IF m.mask[5] THEN 0 ELSE m.data[5],
          IF m.mask[6] THEN 0 ELSE m.data[6]>>

\* Date(time_vector, calendar): the way the constructor ended, and the
\* time vector of the Date when there is one
MultiDate___init__(time_vector, calendar) ==
    LET m == _conversion_to_ma(time_vector)
        filled == MultiDate_init_filled(m, calendar)
        st == IF unmasked_follows_masked(m.mask) THEN "TimelyError"
              ELSE MultiDate_init_status(<<filled>>, <<calendar>>)
    IN  [st |-> st, times |-> IF st = "ok" THEN <<filled>> ELSE <<>>]

\* the values given to each slot
NewYears == {None, <<1582>>, <<2001>>}
NewCycles == {None, <<0>>, <<2>>, <<10>>, <<13>>}
NewDays == {None, <<-1>>, <<0>>, <<5>>, <<29>>, <<30>>}
NewHours == {None, <<-1>>, <<0>>, <<24>>}
NewMinutes == {None, <<0>>, <<60>>}
NewSeconds == {None, <<-1>>, <<59>>, <<60>>}

InitNew ==
    CalIdle /\ ArithIdle /\ CmpIdle /\ PeriodIdle /\ DurationIdle /\ QueryIdle

\* Date(time_vector, calendar), the list having one to six slots
DateNew ==
    /\ query = NoAnswer
    /\ \E y \in NewYears, c \in NewCycles, d \in NewDays, h \in NewHours,
          mi \in NewMinutes, s \in NewSeconds, n \in 1..6,
          calendar \in CmpCalendars :
         \E time_vector \in {SubSeq(<<y, c, d, h, mi, s>>, 1, n)} :
           \E r \in {MultiDate___init__(time_vector, calendar)} :
              query' = [fn |-> "Date", time |-> time_vector,
                        calendar |-> calendar, st |-> r.st,
                        times |-> r.times]
    /\ UNCHANGED <<calres, heap, self, orig, deltat, new_mdate, pc, cmp,
                   period, sample, duration>>

NextNew == DateNew

SpecNew == InitNew /\ [][NextNew]_vars

\* slot k of the list is set, and its value
IsSet(time, k) == k <= Len(time) /\ time[k] # None

Slot(time, k) == time[k][1]

\* a slot is set after an unset slot
SetAfterUnset(time) ==
    \E i \in 1..6, j \in 1..6 : i < j /\ ~IsSet(time, i) /\ IsSet(time, j)

\* the list names no date of the calendar
IllFormed(time, calendar) ==
    \/ SetAfterUnset(time)
    \/ /\ IsSet(time, 1) /\ IsSet(time, 2)
       /\ Slot(time, 2) \notin DOMAIN year_cycles(calendar, Slot(time, 1))
    \/ /\ IsSet(time, 1) /\ IsSet(time, 2) /\ IsSet(time, 3)
       /\ Slot(time, 2) \in DOMAIN year_cycles(calendar, Slot(time, 1))
       /\ ~InList(days_in_cycle(calendar, Slot(time, 2), Slot(time, 1)),
                  Slot(time, 3))
    \/ \E k \in 2..6 : IsSet(time, k) /\ Slot(time, k) < 0
    \/ IsSet(time, 4) /\ Slot(time, 4) >= 24
    \/ IsSet(time, 5) /\ Slot(time, 5) >= 60
    \/ IsSet(time, 6) /\ Slot(time, 6) >= 60

\* C20: the construction of a Date fails with TimelyError, and there is no
\* Date, when a slot is set after an unset slot, when the cycle is not a
\* key of year_cycles(year), when the day is not in days_in_cycle(cycle,
\* year), when a slot other than the year is negative, or when hour >= 24,
\* minute >= 60 or second >= 60.
C20_IllFormedDateRejected ==
    (query.fn = "Date" /\ IllFormed(query.time, query.calendar))
        => (query.st = "TimelyError" /\ query.times = <<>>)

\* a day set after an unset cycle, every set slot being in range
C20_Witness ==
    /\ query.fn = "Date"
    /\ query.time = <<<<2001>>, None, <<5>>>>
    /\ query.st = "TimelyError"

-----------------------------------------------------------------------------
(* date + deltat, and the sum of the same date with the components of     *)
(* deltat taken one at a time.                                            *)

\* r + DeltaT of slot k of step alone, r being the outcome of the
\* additions before it; a slot that is zero is not added
then_add_component(r, calendar, step, k) ==
    IF r.st # "ok" \/ step[1][k] = 0 THEN r
    ELSE Date___add__(r.T, calendar, <<Single(k, step[1][k])>>)

\* ((((((date + years) + cycles) + days) + hours) + minutes) + seconds)
add_one_at_a_time(times, calendar, step) ==
    then_add_component(
        then_add_component(
            then_add_component(
                then_add_component(
                    then_add_component(
                        then_add_component(
                            [T |-> times,
                             st |-> MultiDate_init_status(times,
                                                          <<calendar>>)],
                            calendar, step, 1),
                        calendar, step, 2),
                    calendar, step, 3),
                calendar, step, 4),
            calendar, step, 5),
        calendar, step, 6)

\* the dates and the durations that are added
OrderDates ==
    {<<2001, 1, 31, 0, 0, 0>>, <<2000, 2, 29, 12, 0, 0>>,
     <<2001, 12, 31, 23, 59, 59>>, <<1582, 10, 4, 0, 0, 0>>,
     <<2001, 3, 15, 6, 30, 0>>, <<2001, 3, 1, 0, 0, 0>>}

OrderSteps ==
    {Array(s) : s \in {t \in [1..6 -> {-1, 0, 1}] :
                             Cardinality({k \in 1..6 : t[k] # 0}) >= 2}}

InitOrder ==
    CalIdle /\ ArithIdle /\ CmpIdle /\ PeriodIdle /\ DurationIdle /\ QueryIdle

\* Date(date, calendar) + DeltaT(step), and the same sum taken one
\* component at a time
AddInOrder ==
    /\ query = NoAnswer
    /\ \E date \in OrderDates, calendar \in CmpCalendars :
         /\ MultiDate_init_status(<<date>>, <<calendar>>) = "ok"
         /\ \E step \in OrderSteps :
              \E whole \in {Date___add__(<<date>>, calendar, <<step>>)},
                 parts \in {add_one_at_a_time(<<date>>, calendar, <<step>>)} :
                 query' = [fn |-> "add", date |-> date, calendar |-> calendar,
                           step |-> step, st |-> whole.st, times |-> whole.T,
                           parts_st |-> parts.st, parts_times |-> parts.T]
    /\ UNCHANGED <<calres, heap, self, orig, deltat, new_mdate, pc, cmp,
                   period, sample, duration>>

NextOrder == AddInOrder

SpecOrder == InitOrder /\ [][NextOrder]_vars

\* C21: for a DeltaT with several non-zero components, date + deltat is the
\* result of adding its components to the date one at a time, years first,
\* then cycles, days, hours, minutes and seconds.
C21_ComponentsInOrder ==
    query.fn = "add" =>
        /\ query.st = query.parts_st
        /\ query.st = "ok" => query.times = query.parts_times

-----------------------------------------------------------------------------
(* MultiDate + DeltaT on dates bound to different calendars, and the sum  *)
(* of each date alone with the same DeltaT.                               *)

\* the dates of the collections, each with its calendar
BulkDates ==
    {<<<<2001, 1, 15, 0, 0, 0>>, "gregorian">>,
     <<<<2000, 2, 29, 23, 59, 59>>, "gregorian">>,
     <<<<2001, 12, 31, 12, 0, 0>>, "noleap">>,
     <<<<2000, 2, 28, 0, 0, 0>>, "noleap">>,
     <<<<2001, 2, 30, 0, 0, 0>>, "360_day">>,
     <<<<2001, 6, 1, 0, 0, 0>>, "360_day">>}

\* the durations added to them
BulkSteps ==
    {Single(1, 1), Single(2, 1), Single(2, -1), Single(3, 1), Single(3, -1),
     Single(3, 45), Single(3, -45), Single(4, 25), Single(6, -1),
     <<0, 1, 1, 0, 0, 0>>}

\* the number of dates of a collection
MaxRows == 2

BulkCollections ==
    UNION {[1..n -> BulkDates] : n \in 2..MaxRows}

InitBulk ==
    CalIdle /\ ArithIdle /\ CmpIdle /\ PeriodIdle /\ DurationIdle /\ QueryIdle

\* MultiDate(T, calendars) + DeltaT(step), and Date(T[i], calendars[i]) +
\* DeltaT(step) for every i
BulkAdd ==
    /\ query = NoAnswer
    /\ \E rows \in BulkCollections, step \in BulkSteps :
         \E T \in {Array([i \in DOMAIN rows |-> rows[i][1]])},
            calendars \in {Array([i \in DOMAIN rows |-> rows[i][2]])} :
            \E bulk \in {MultiDate_add_from(T, calendars, <<step>>,
                             MultiDate_init_status(T, calendars))},
               each \in {Array([i \in DOMAIN rows |->
                             Date___add__(<<T[i]>>, calendars[i],
                                          <<step>>)])} :
               query' = [fn |-> "bulk_add", times |-> T,
                         calendars |-> calendars, step |-> step,
                         st |-> bulk.st, result |-> bulk.T, each |-> each]
    /\ UNCHANGED <<calres, heap, self, orig, deltat, new_mdate, pc, cmp,
                   period, sample, duration>>

NextBulk == BulkAdd

SpecBulk == InitBulk /\ [][NextBulk]_vars

\* C22: element i of MultiDate + DeltaT is Date(element i, calendar i) +
\* DeltaT, whatever the other elements and their calendars are: the sum of
\* the collection is there exactly when the sum of every element is, and
\* then holds these sums.
C22_ElementWise ==
    query.fn = "bulk_add" =>
        /\ (query.st = "ok") <=>
               (\A i \in DOMAIN query.each : query.each[i].st = "ok")
        /\ (query.st = "ok") =>
               \A i \in DOMAIN query.each :
                   query.result[i] = query.each[i].T[1]

-----------------------------------------------------------------------------
(* regular_sample with a buffer.  The buffers that are given are None,    *)
(* durations that `if buffer:` takes as true, and the zero duration,      *)
(* with which initial_date is the same whether it is added or not.        *)

\* initial_date with every left_open period moved by deltat, the test of
\* initial_date against self.initial_date() left out
regular_sample_always_steps(p, step, buffer) ==
    LET start == IF buffer = None THEN [T |-> <<p.times[1]>>, st |-> "ok"]
                 ELSE Date___add__(<<p.times[1]>>, p.calendar, buffer)
    IN  IF start.st # "ok" THEN start
        ELSE IF p.left_open
        THEN Date___add__(start.T, p.calendar, step)
        ELSE start

\* regular_sample(deltat, buffer): initial_date, to which the buffer is
\* added, and which is moved by deltat when the period is open on the left
\* and initial_date == self.initial_date()
regular_sample_buffered(p, step, buffer) ==
    LET start == IF buffer = None THEN [T |-> <<p.times[1]>>, st |-> "ok"]
                 ELSE Date___add__(<<p.times[1]>>, p.calendar, buffer)
    IN  IF start.st # "ok" THEN start
        ELSE IF p.left_open /\ start.T = <<p.times[1]>>
        THEN Date___add__(start.T, p.calendar, step)
        ELSE start

\* the buffers regular_sample is called with
SampleBuffers ==
    {None, <<Single(1, 0)>>, <<one_hour>>, <<one_day>>, <<Single(4, 30)>>}

InitBuffer == InitPeriod

\* period.regular_sample(deltat, buffer), up to its while loop
RegularSampleBuffered ==
    /\ sample = NoSample
    /\ query = NoAnswer
    /\ \E step \in SampleSteps, buffer \in SampleBuffers :
         /\ sample' = regular_sample_entry(period, step,
                          regular_sample_buffered(period, step, buffer))
         /\ query' = [fn |-> "regular_sample", buffer |-> buffer]
    /\ UNCHANGED <<calres, heap, self, orig, deltat, new_mdate, pc, cmp,
                   period, duration>>

NextBuffer == RegularSampleBuffered

SpecBuffer == InitBuffer /\ [][NextBuffer]_vars

\* the period's initial date with the buffer of the call added to it
BufferedStart ==
    IF query.buffer = None THEN <<period.times[1]>>
    ELSE Date___add__(<<period.times[1]>>, period.calendar, query.buffer).T

-----------------------------------------------------------------------------
(* implicit_period.  Date(validate_time.times, calendar) is given the     *)
(* masked array of validate_time itself and fills its unset slots; the    *)
(* mask it clears is its own (numpy.ma copies a shared mask before the    *)
(* first write to it), so the mask of validate_time.times still marks the *)
(* slots the caller left out when the resolution is read from it.         *)

\* the resolution read from a mask in which no slot is marked any more
resolution_of_filled_date(time) == 6

\* the resolution implicit_period reads from the mask of
\* validate_time.times: the place of the last slot that is set, time being
\* a list of one to six numbers
implicit_period_resolution(time) == Len(time)

\* implicit_period(time, calendar)
implicit_period(time, calendar) ==
    LET date1 == MultiDate___init__(Array([i \in DOMAIN time |-> <<time[i]>>]),
                                    calendar)
        resolution == implicit_period_resolution(time)
        date2 == Date___add__(date1.times, calendar,
                              <<Single(resolution, 1)>>)
    IN  IF date1.st # "ok"
        THEN [st |-> date1.st, initial |-> <<>>, final |-> <<>>,
              period |-> NoPeriod]
        ELSE IF date2.st # "ok"
        THEN [st |-> date2.st, initial |-> date1.times[1], final |-> <<>>,
              period |-> NoPeriod]
        ELSE Period(<<time, date2.T[1]>>, FALSE, TRUE, calendar)

\* the time vectors implicit_period is called with
ImplicitLists ==
    LET years == {2000, 2010}
        cycles == {1, 2, 12}
        days == {1, 28}
        hours == {0, 23}
    IN  {<<y>> : y \in years}
        \cup {<<y, c>> : y \in years, c \in cycles}
        \cup {<<y, c, d>> : y \in years, c \in cycles, d \in days}
        \cup {<<y, c, d, h>> : y \in years, c \in cycles, d \in days,
                               h \in hours}
        \cup {<<2010, 12, 30, 23, 59>>, <<2010, 12, 30, 23, 59, 59>>,
              <<2010, 6, 15, 12, 30>>, <<2010, 6, 15, 12, 30, 30>>}

InitImplicit ==
    CalIdle /\ ArithIdle /\ CmpIdle /\ PeriodIdle /\ DurationIdle /\ QueryIdle

ImplicitPeriod ==
    /\ query = NoAnswer
    /\ \E time \in ImplicitLists, calendar \in CmpCalendars :
         \E r \in {implicit_period(time, calendar)} :
            /\ query' = [fn |-> "implicit_period", time |-> time,
                         calendar |-> calendar, st |-> r.st]
            /\ period' = r.period
    /\ UNCHANGED <<calres, heap, self, orig, deltat, new_mdate, pc, cmp,
                   sample, duration>>

NextImplicit == ImplicitPeriod

SpecImplicit == InitImplicit /\ [][NextImplicit]_vars

\* C24: implicit_period(v, calendar), v being given at resolution r,
\* returns the Period from v with its unset slots defaulted to that date
\* plus one unit of slot r (with the carry into the next year after the
\* last cycle), closed on the left and open on the right.
C24_ImplicitPeriod ==
    query.fn = "implicit_period" =>
        LET initial == MultiDate_init_fill(query.time, query.calendar)
        IN  /\ query.st = "ok"
            /\ period.times[1] = initial
            /\ <<period.times[2]>> =
                   Date___add__(<<initial>>, query.calendar,
                                <<Single(Len(query.time), 1)>>).T
            /\ ~period.left_open /\ period.right_open
            /\ query.time = <<2010>>
                   => period.times[2] = <<2011, 1, 1, 0, 0, 0>>
            /\ query.time = <<2010, 2>>
                   => period.times[2] = <<2010, 3, 1, 0, 0, 0>>
            /\ query.time = <<2010, 12>>
                   => period.times[2] = <<2011, 1, 1, 0, 0, 0>>

\* the month of December 2010: the final date is carried into 2011
C24_Witness ==
    /\ query.fn = "implicit_period"
    /\ query.time = <<2010, 12>>
    /\ query.st = "ok"
    /\ period.times = <<<<2010, 12, 1, 0, 0, 0>>, <<2011, 1, 1, 0, 0, 0>>>>
    /\ ~period.left_open /\ period.right_open

-----------------------------------------------------------------------------
(* MultiDate.intersection(period, as_indices=True): the indices of the    *)
(* dates of a collection that lie in a Period.                            *)

\* np.where(flags) of a one-dimensional array of truth values: the indices,
\* counted from 0, of the true ones, in increasing order
RECURSIVE np_where_from(_, _)
np_where_from(flags, i) ==
    IF i > Len(flags) THEN <<>>
    ELSE (IF flags[i] THEN <<i - 1>> ELSE <<>>) \o np_where_from(flags, i + 1)

\* the date in row i of a collection, as the comparisons see it
Row(T, calendars, i) ==
    [times |-> <<T[i]>>, calendar |-> calendars[i], st |-> "ok"]

\* intersection with both boundaries of the period taken as closed
intersection_ignoring_flags(T, calendars, other) ==
    LET flag_initial == [i \in 1..Len(T) |->
            MultiDate___ge__(Row(T, calendars, i),
                             Period_initial_date(other)).result]
        flag_final == [i \in 1..Len(T) |->
            MultiDate___le__(Row(T, calendars, i),
                             Period_final_date(other)).result]
        flag_within == [i \in 1..Len(T) |-> flag_initial[i] /\ flag_final[i]]
    IN  np_where_from(flag_within, 1)

\* MultiDate(T, calendars).intersection(other, as_indices=True)[0], other
\* being a Period
MultiDate_intersection(T, calendars, other) ==
    LET flag_initial == [i \in 1..Len(T) |->
            IF other.left_open
            THEN MultiDate___gt__(Row(T, calendars, i),
                                  Period_initial_date(other)).result
            ELSE MultiDate___ge__(Row(T, calendars, i),
                                  Period_initial_date(other)).result]
        flag_final == [i \in 1..Len(T) |->
            IF other.right_open
            THEN MultiDate___lt__(Row(T, calendars, i),
                                  Period_final_date(other)).result
            ELSE MultiDate___le__(Row(T, calendars, i),
                                  Period_final_date(other)).result]
        flag_within == [i \in 1..Len(T) |-> flag_initial[i] /\ flag_final[i]]
    IN  np_where_from(flag_within, 1)

\* the dates of the collections and the end points of the periods
IntersectDates ==
    {<<1999, 12, 30, 23, 59, 59>>, <<2000, 2, 1, 0, 0, 0>>,
     <<2000, 2, 15, 12, 0, 0>>, <<2000, 3, 1, 0, 0, 0>>}

IntersectCollections ==
    UNION {{Array(s) : s \in [1..n -> IntersectDates]} : n \in 1..MaxDates}

IntersectPeriods ==
    {r.period : r \in {Period(<<a, b>>, lo, ro, "gregorian") :
                         a \in IntersectDates, b \in IntersectDates,
                         lo \in BOOLEAN, ro \in BOOLEAN}}
    \ {NoPeriod}

InitIntersect ==
    CalIdle /\ ArithIdle /\ CmpIdle /\ PeriodIdle /\ DurationIdle /\ QueryIdle

Intersection ==
    /\ query = NoAnswer
    /\ \E T \in IntersectCollections, calendar \in EndCalendars,
          other \in IntersectPeriods :
          /\ query' = [fn |-> "intersection", times |-> T,
                       calendar |-> calendar,
                       indices |-> MultiDate_intersection(
                                       T, [i \in 1..Len(T) |-> calendar],
                                       other)]
          /\ period' = other
    /\ UNCHANGED <<calres, heap, self, orig, deltat, new_mdate, pc, cmp,
                   sample, duration>>

NextIntersect == Intersection

SpecIntersect == InitIntersect /\ [][NextIntersect]_vars

\* the date e lies in the period p, by the flags of p
LiesIn(e, p) ==
    /\ Later(e, p.times[1]) \/ (~p.left_open /\ e = p.times[1])
    /\ Later(p.times[2], e) \/ (~p.right_open /\ e = p.times[2])

\* C25: intersection(period, as_indices=True) returns exactly the indices
\* of the dates that lie in the period by its flags: after the initial date,
\* or equal to it when the period is closed on the left, and before the
\* final date, or equal to it when the period is closed on the right.
C25_IndicesInPeriod ==
    query.fn = "intersection" =>
        /\ \A i \in 1..Len(query.times) :
              LiesIn(query.times[i], period)
                  <=> \E k \in 1..Len(query.indices) : query.indices[k] = i - 1
        /\ \A k \in 1..Len(query.indices) :
              /\ query.indices[k] \in 0..(Len(query.times) - 1)
              /\ \A j \in 1..(k - 1) : query.indices[j] # query.indices[k]

\* a collection with a date on the open initial boundary, which is left
\* out, and a date inside the period, which is returned
C25_Witness ==
    /\ query.fn = "intersection"
    /\ period.left_open
    /\ Len(query.times) = 3
    /\ query.times[1] = period.times[1]
    /\ query.times[3] = period.times[2]
    /\ query.indices = <<1, 2>>

-----------------------------------------------------------------------------
(* Termination of the carry loops of add_days, under SpecArith.           *)

\* a duration of days alone
DaysOnly(v) == v = Single(3, v[3])

\* C26: adding a DeltaT of any whole number of days to a Date, positive or
\* negative, by more than one calendar year as well, comes to an end: none
\* of the two carry loops of add_days is left running.
C26_AddDaysTerminates ==
    (pc = "added" /\ Len(orig) = 1 /\ DaysOnly(deltat[1]))
        => new_mdate.st # "hang"

-----------------------------------------------------------------------------
(* Equality of durations of days, hours, minutes and seconds, under       *)
(* SpecEq.                                                                *)

\* the signed number of seconds of a duration without years and cycles
TotalSeconds(v) == ((v[3] * 24 + v[4]) * 60 + v[5]) * 60 + v[6]

\* C27: two DeltaT with zero years and cycles compare equal with == when
\* they come to the same signed number of seconds (90 minutes and 1 hour 30
\* minutes, 24 hours and 1 day, -120 seconds and -2 minutes) and unequal
\* when they do not.
C27_EqualByTotalSeconds ==
    (/\ query.fn = "DeltaT.__eq__"
     /\ query.left[1] = 0 /\ query.left[2] = 0
     /\ query.right[1] = 0 /\ query.right[2] = 0)
        => /\ query.st = "ok"
           /\ query.result
                  <=> TotalSeconds(query.left) = TotalSeconds(query.right)

-----------------------------------------------------------------------------
(* count_seconds of a Period against the seconds that pass from its       *)
(* initial to its final date.                                             *)

\* the end points of the periods whose seconds are counted
CountLists ==
    {<<<<2000, 1, 1>>, <<2000, 1, 2>>>>,
     <<<<1999, 12, 30, 23, 59, 59>>, <<2000, 1, 1, 0, 0, 0>>>>,
     <<<<2000, 1, 1, 6, 59, 59>>, <<2000, 1, 1, 8, 0, 0>>>>,
     <<<<2000, 2, 28, 23, 59, 59>>, <<2000, 3, 1, 0, 0, 0>>>>,
     <<<<2000, 1, 1, 6, 30, 15>>, <<2000, 1, 1, 6, 30, 45>>>>,
     <<<<1999, 12, 30, 12, 0, 0>>, <<2001, 1, 1, 0, 0, 0>>>>,
     <<<<2000, 1, 1, 0, 59, 0>>, <<2000, 1, 1, 1, 0, 0>>>>,
     <<<<2000, 1, 1, 23, 59, 0>>, <<2000, 1, 2, 0, 0, 30>>>>,
     <<<<2000, 1, 1, 0, 0, 59>>, <<2000, 1, 1, 0, 1, 0>>>>,
     <<<<1582, 10, 4, 23, 59, 59>>, <<1582, 10, 15, 0, 0, 0>>>>,
     <<<<2000, 2, 1, 23, 0, 59>>, <<2000, 2, 2, 0, 59, 0>>>>,
     <<<<2000, 6, 15, 23, 59, 59>>, <<2000, 6, 16, 0, 0, 1>>>>,
     <<<<2000, 12, 30, 23, 59, 59>>, <<2001, 1, 1, 0, 0, 0>>>>,
     <<<<2000, 3, 1, 0, 0, 0>>, <<2000, 3, 1, 0, 0, 1>>>>}

InitCount ==
    CalIdle /\ ArithIdle /\ CmpIdle /\ PeriodIdle /\ DurationIdle /\ QueryIdle

\* Period(lists, left_open, right_open, calendar).count_seconds()
PeriodCountSeconds ==
    /\ query = NoAnswer
    /\ \E lists \in CountLists, calendar \in CmpCalendars,
          left_open \in BOOLEAN, right_open \in BOOLEAN :
         \E r \in {Period(lists, left_open, right_open, calendar)} :
           /\ r.st = "ok"
           /\ period' = r.period
           /\ query' = [fn |-> "count_seconds",
                        value |-> MultiPeriod_count_seconds(r.period)]
    /\ UNCHANGED <<calres, heap, self, orig, deltat, new_mdate, pc, cmp,
                   sample, duration>>

NextCount == PeriodCountSeconds

SpecCount == InitCount /\ [][NextCount]_vars

\* the days from the first day of the year base to the date v
DaysSince(cal, base, v) ==
    days_in_years(cal, base, v[1] - 1)
        + days_in_cycles(cal, v[1], 1, v[2] - 1)
        + day_number_in_cycle(<<v>>, <<cal>>)[1] - 1

\* the seconds from the first second of the year base to the date v
SecondsSince(cal, base, v) ==
    DaysSince(cal, base, v) * 86400 + (v[4] * 60 + v[5]) * 60 + v[6]

\* the seconds that pass from the initial date of p to its final date
Elapsed(p) ==
    SecondsSince(p.calendar, p.times[1][1], p.times[2])
        - SecondsSince(p.calendar, p.times[1][1], p.times[1])

\* C28: count_seconds() of a Period with end points of whole seconds is the
\* number of seconds from the initial to the final date, plus 1, minus 1
\* for each open boundary, wherever the end points fall.
C28_CountSeconds ==
    query.fn = "count_seconds" =>
        query.value = Elapsed(period) + 1 - B(period.left_open)
                          - B(period.right_open)

\* a period open on both sides that begins at 23:59:59 and ends at
\* 00:00:00 in the next cycle
C28_Witness ==
    /\ query.fn = "count_seconds"
    /\ period.left_open /\ period.right_open
    /\ SubSeq(period.times[1], 4, 6) = <<23, 59, 59>>
    /\ SubSeq(period.times[2], 4, 6) = <<0, 0, 0>>
    /\ period.times[2][2] # period.times[1][2]
    /\ query.value = Elapsed(period) - 1

-----------------------------------------------------------------------------
(* MultiDate.convex_hull().                                               *)

\* the truth value a bool array keeps of a Calendar assigned to it: the
\* class defines neither __nonzero__ nor __len__
Calendar_as_bool(calendar) == TRUE

\* MultiDate(T, calendars).convex_hull(): the third argument handed to
\* explicit_period, its left_open, is initial_date.calendar
MultiDate_convex_hull(T, calendars) ==
    LET initial_date == MultiDate_min(T, calendars)
        final_date == MultiDate_max(T, calendars)
        none == [st |-> "ok", kind |-> "none", date |-> <<>>,
                 period |-> NoPeriod]
    IN  IF initial_date.st # "ok" THEN [none EXCEPT !.st = initial_date.st]
        ELSE IF final_date.st # "ok" THEN [none EXCEPT !.st = final_date.st]
        ELSE IF initial_date.times = final_date.times
        THEN [none EXCEPT !.kind = "Date", !.date = initial_date.times[1]]
        ELSE LET r == explicit_period(
                          [times |-> initial_date.times,
                           calendar |-> calendars[1], st |-> "ok"],
                          [times |-> final_date.times,
                           calendar |-> calendars[1], st |-> "ok"],
                          Calendar_as_bool(calendars[1]), FALSE)
             IN  [st |-> r.st, kind |-> "Period", date |-> <<>>,
                  period |-> r.period]

InitHull ==
    CalIdle /\ ArithIdle /\ CmpIdle /\ PeriodIdle /\ DurationIdle /\ QueryIdle

\* MultiDate(T, calendar).convex_hull()
ConvexHull ==
    /\ query = NoAnswer
    /\ \E T \in ExtentTimes, calendar \in {"gregorian", "noleap"} :
         \E r \in {MultiDate_convex_hull(Array(T),
                                         Array([i \in DOMAIN T |-> calendar]))} :
            /\ query' = [fn |-> "convex_hull", times |-> Array(T),
                         calendar |-> calendar, st |-> r.st,
                         kind |-> r.kind, date |-> r.date]
            /\ period' = r.period
    /\ UNCHANGED <<calres, heap, self, orig, deltat, new_mdate, pc, cmp,
                   sample, duration>>

NextHull == ConvexHull

SpecHull == InitHull /\ [][NextHull]_vars

\* C29: convex_hull() of a collection of one calendar with at least two
\* distinct dates returns the Period from its earliest to its latest date,
\* closed on both sides, so that every date of the collection lies in it;
\* of a collection whose dates are all equal it returns that Date.
C29_HullHoldsEveryDate ==
    query.fn = "convex_hull" =>
        LET T == query.times
        IN  /\ query.st = "ok"
            /\ IF \A i \in 1..Len(T) : T[i] = T[1]
               THEN query.kind = "Date" /\ query.date = T[1]
               ELSE /\ query.kind = "Period"
                    /\ \E i \in 1..Len(T) : period.times[1] = T[i]
                    /\ \E i \in 1..Len(T) : period.times[2] = T[i]
                    /\ ~period.left_open /\ ~period.right_open
                    /\ \A i \in 1..Len(T) : LiesIn(T[i], period)

-----------------------------------------------------------------------------
(* TimeSeries.timestep().  The quotients len returns are kept as exact    *)
(* fractions num / den.                                                   *)

\* period.len(j), the unit being given by its number, 0 (years) to 5
\* (seconds)
MultiPeriod_len_code(p, j) ==
    LET in_cycle == count_days_in_cycle(p.calendar, p.times[1][2],
                                        p.times[1][1])
        in_year == count_days_in_year(p.calendar, p.times[1][1])
    IN  [num |-> MultiPeriod_count_seconds(p),
         den |-> CASE j = 5 -> 1
                   [] j = 4 -> 60
                   [] j = 3 -> 360
                   [] j = 2 -> 86400
                   [] j = 1 -> 86400 * in_cycle
                   [] j = 0 -> 86400 * in_year]

\* explicit_period(self[0], self[i]), i being counted from 0
timestep_period(T, calendar, i) ==
    explicit_period([times |-> <<T[1]>>, calendar |-> calendar, st |-> "ok"],
                    [times |-> <<T[i + 1]>>, calendar |-> calendar,
                     st |-> "ok"],
                    FALSE, FALSE)

\* flags_uniform after the first period
timestep_first_flags(counts) ==
    [j \in 0..5 |-> ~((j \in {0, 1, 2}) /\ (counts[j].num = counts[j].den))]

\* flags_uniform after the period from self[0] to self[i]
timestep_flags(period_i, counts, flags_uniform, i) ==
    [j \in 0..5 |->
        LET this_len == MultiPeriod_len_code(period_i, j)
            differs ==
                IF j \in {0, 1, 2}
                THEN i * (counts[j].num - counts[j].den)
                         # this_len.num - this_len.den
                ELSE i * counts[j].num # this_len.num
        IN  flags_uniform[j] /\ ~differs]

\* the loop over the dates from self[i] on
RECURSIVE timestep_loop(_, _, _, _, _)
timestep_loop(T, calendar, counts, flags_uniform, i) ==
    IF i >= Len(T) THEN [st |-> "ok", flags_uniform |-> flags_uniform]
    ELSE LET r == timestep_period(T, calendar, i)
             flags == timestep_flags(r.period, counts, flags_uniform, i)
         IN  IF r.st # "ok"
             THEN [st |-> r.st, flags_uniform |-> flags_uniform]
             ELSE IF \A j \in 0..5 : ~flags[j]
             THEN [st |-> "TimelyError", flags_uniform |-> flags]
             ELSE timestep_loop(T, calendar, counts, flags, i + 1)

\* the DeltaT timestep returns: a time vector for a step of seconds, and the
\* slot with its amount num / den for every other step
timestep_return(counts, flags_uniform) ==
    LET none == [st |-> "ok", slot |-> 0, num |-> 0, den |-> 1,
                 deltat |-> <<>>]
    IN  IF flags_uniform[5]
        THEN [none EXCEPT
                 !.slot = 6,
                 !.deltat = hours_to_days(minutes_to_hours(seconds_to_minutes(
                                <<0, 0, 0, 0, 0, counts[5].num>>)))]
        ELSE IF flags_uniform[4]
        THEN [none EXCEPT !.slot = 5, !.num = counts[4].num,
                          !.den = counts[4].den]
        ELSE IF flags_uniform[3]
        THEN [none EXCEPT !.slot = 4, !.num = counts[3].num,
                          !.den = counts[3].den]
        ELSE IF flags_uniform[2]
        THEN [none EXCEPT !.slot = 3, !.num = counts[2].num - counts[2].den,
                          !.den = counts[2].den]
        ELSE IF flags_uniform[1]
        THEN [none EXCEPT !.slot = 2, !.num = counts[1].num - counts[1].den,
                          !.den = counts[1].den]
        ELSE IF flags_uniform[0]
        THEN [none EXCEPT !.slot = 1, !.num = counts[0].num - counts[0].den,
                          !.den = counts[0].den]
        ELSE [none EXCEPT !.st = "None"]

\* TimeSeries(T, calendar).timestep()
TimeSeries_timestep(T, calendar) ==
    LET failed(st) == [st |-> st, slot |-> 0, num |-> 0, den |-> 1,
                       deltat |-> <<>>]
        first == timestep_period(T, calendar, 1)
        counts == [j \in 0..5 |-> MultiPeriod_len_code(first.period, j)]
        checked == timestep_loop(T, calendar, counts,
                                 timestep_first_flags(counts), 2)
    IN  IF Len(T) < 2 THEN failed("TimelyError")
        ELSE IF first.st # "ok" THEN failed(first.st)
        ELSE IF checked.st # "ok" THEN failed(checked.st)
        ELSE timestep_return(counts, checked.flags_uniform)

\* the first dates of the series and the steps between their dates
SeriesStarts ==
    {<<2000, 1, 1, 0, 0, 0>>, <<2000, 2, 28, 6, 30, 0>>,
     <<1999, 12, 30, 23, 59, 59>>, <<2000, 6, 15, 12, 0, 30>>}

SeriesSteps ==
    {Single(6, 1), Single(6, 30), Single(5, 1), Single(5, 90), Single(4, 1),
     Single(4, 6)}

\* the series of the dates first, first + step, first + step + last
SeriesOf(first, calendar, step, last) ==
    LET second == Date___add__(<<first>>, calendar, <<step>>)
        third == Date___add__(second.T, calendar, <<last>>)
    IN  [st |-> IF second.st # "ok" THEN second.st ELSE third.st,
         T |-> <<first>> \o second.T \o third.T]

InitSeries ==
    CalIdle /\ ArithIdle /\ CmpIdle /\ PeriodIdle /\ DurationIdle /\ QueryIdle

\* TimeSeries(T, calendar).timestep() on a series of two or three dates
Timestep ==
    /\ query = NoAnswer
    /\ \E first \in SeriesStarts, calendar \in CmpCalendars,
          step \in SeriesSteps, last \in SeriesSteps, n \in {2, 3} :
         \E s \in {SeriesOf(first, calendar, step, last)} :
           /\ s.st = "ok"
           /\ n = 2 => last = step
           /\ \E r \in {TimeSeries_timestep(SubSeq(s.T, 1, n), calendar)} :
                query' = [fn |-> "timestep", times |-> SubSeq(s.T, 1, n),
                          calendar |-> calendar, step |-> step,
                          last |-> last, st |-> r.st, slot |-> r.slot,
                          num |-> r.num, den |-> r.den, deltat |-> r.deltat]
    /\ UNCHANGED <<calres, heap, self, orig, deltat, new_mdate, pc, cmp,
                   period, sample, duration>>

NextSeries == Timestep

SpecSeries == InitSeries /\ [][NextSeries]_vars

\* C30: timestep() of a series of two or more dates that follow each other
\* by one and the same whole number of seconds, minutes or hours returns a
\* DeltaT of that length, for a series of two dates as for a longer one.
C30_TimestepIsSpacing ==
    (query.fn = "timestep" /\ query.last = query.step)
        => /\ query.st = "ok"
           /\ query.slot = 6
           /\ TotalSeconds(query.deltat) = TotalSeconds(query.step)

=============================================================================
